---- MODULE Spec2Model ----
(***************************************************************************)
(* Trigger & delivery orchestrator of the campaign bot:                    *)
(*   utils/keyword-matcher.js   normalizeText, containsKeyword,            *)
(*                              matchKeywords                              *)
(*   services/campaign.service.js   detectCampaign                         *)
(*   services/ratelimit.service.js  checkRateLimit, updateRateLimit        *)
(*   services/conversation.service.js (unnamed/part_000, lines 1-317)      *)
(*   services/whatsapp.service.js     (unnamed/part_000, lines 318-634)    *)
(*   services/message.service.js    sendSequentialMessages and senders     *)
(*   utils/helpers.js               replaceVariables                       *)
(*   server.js                      start and stop requests, timers        *)
(*                                                                         *)
(* Text is a sequence of one-character strings.  The store is the set of   *)
(* tables the services read and write; every await of a handler is a       *)
(* point where another handler may run.                                    *)
(***************************************************************************)
EXTENDS Integers, Sequences, FiniteSets, TLC

(***************************************************************************)
(* Bounds of the model.                                                    *)
(***************************************************************************)
MaxMsgLen == 3
MaxEntries == 2
MaxCampaigns == 2
MaxRuns == 2
MaxStoreFailures == 1
MaxTrackerOps == 4
MaxRateOps == 3
MaxTicks == 3
MaxPlanLen == 2
MaxMedia == 2
MaxStarts == 2
MaxStops == 1
MaxClients == 3
\* The clock value of the initial state: stored timestamps lie before it.
StartTime == 50

VARIABLES
    \* ---- function-level harness (matcher, selector) ----
    fMsg,          \* the raw message text handed to the function
    fRules,        \* the rule set (trigger_keywords document) handed to matchKeywords
    fCampaigns,    \* rows of the campaigns table, in storage order
    fResult,       \* what the function returned
    fPhase,        \* "input" before the call, then the name of the function called
    \* ---- persistent store ----
    conversations, \* bot_conversations: sequence of rows, the id is the index
    rateLimit,     \* user_rate_limit: user_phone -> row or NoRow
    blockedNumbers,\* blocked_numbers: set of phone numbers
    campaigns,     \* campaigns: rows in storage order
    \* ---- environment ----
    now,           \* the clock
    storeFailures, \* store accesses that have failed so far
    \* ---- orchestration runs (handleIncomingMessage invocations) ----
    runs,          \* run id -> the run's position and locals
    sendLog,       \* run id -> sequence of client.sendMessage attempts
    campaignMessages, \* messages table: the stored rows of the campaign
    \* ---- history ----
    triggerLog,    \* user_phone -> the times of the updateRateLimit calls so far
    \* ---- tracker and rate limiter harness ----
    trackerOps,    \* operations applied so far by the harness
    \* ---- WhatsAppService singleton and server.js ----
    service,       \* the fields of the WhatsAppService instance
    clients,       \* the Client instances created so far, the id is the index
    inits,         \* the _doInitialize invocations so far (promises)
    timers,        \* the timers of setTimeout(..., 30000) armed so far
    server,        \* the globals of server.js and the session folders
    tasks          \* the asynchronous handlers of server.js under way

fVars == <<fMsg, fRules, fCampaigns, fResult, fPhase>>
storeVars == <<conversations, rateLimit, blockedNumbers, campaigns, campaignMessages>>
envVars == <<now, storeFailures>>
runVars == <<runs, sendLog>>
harnessVars == <<fMsg, fRules, fCampaigns, fResult, fPhase, trackerOps>>
lifecycleVars == <<service, clients, inits, timers, server, tasks>>
vars == <<fMsg, fRules, fCampaigns, fResult, fPhase, conversations, rateLimit,
          blockedNumbers, campaigns, campaignMessages, now, storeFailures, runs, sendLog,
          triggerLog, trackerOps, service, clients, inits, timers, server, tasks>>

(***************************************************************************)
(* Text helpers: the JavaScript String and Array methods the code uses.    *)
(***************************************************************************)
\* String.prototype.includes: `t` occurs in `s` as a contiguous substring.
Includes(s, t) ==
    \E i \in 0..(Len(s) - Len(t)) : SubSeq(s, i + 1, i + Len(t)) = t

\* Array.prototype.includes.
ArrayIncludes(arr, x) == \E i \in 1..Len(arr) : arr[i] = x

RECURSIVE Concat(_)
Concat(pieces) ==
    IF pieces = <<>> THEN <<>> ELSE Head(pieces) \o Concat(Tail(pieces))

\* String.prototype.split(' '): every separator cuts, empty pieces are kept.
RECURSIVE SplitOnSpace(_)
SplitOnSpace(s) ==
    IF \A i \in 1..Len(s) : s[i] # " "
    THEN <<s>>
    ELSE LET i == CHOOSE k \in 1..Len(s) :
                      s[k] = " " /\ \A m \in 1..(k - 1) : s[m] # " "
         IN <<SubSeq(s, 1, i - 1)>> \o SplitOnSpace(SubSeq(s, i + 1, Len(s)))

(***************************************************************************)
(* Characters.  U0301 stands for the combining acute accent, one code      *)
(* unit of the range U+0300..U+036F; TAB is a whitespace other than ' ';   *)
(* A_ACUTE and a_acute are the precomposed letters U+00C1 and U+00E1.      *)
(***************************************************************************)
Punctuation == {"!", ","}
Whitespace == {" ", "TAB"}
CombiningMarks == {"U0301"}

LowerOf(c) ==
    CASE c = "A" -> "a"
      [] c = "B" -> "b"
      [] c = "A_ACUTE" -> "a_acute"
      [] OTHER -> c

\* Canonical decomposition of one character.
DecomposeChar(c) ==
    CASE c = "a_acute" -> <<"a", "U0301">>
      [] c = "A_ACUTE" -> <<"A", "U0301">>
      [] OTHER -> <<c>>

ToLowerCase(s) == [i \in 1..Len(s) |-> LowerOf(s[i])]

NFD(s) == Concat([i \in 1..Len(s) |-> DecomposeChar(s[i])])

StripChar(c) == IF c \in CombiningMarks THEN <<>> ELSE <<c>>
StripMarks(s) == Concat([i \in 1..Len(s) |-> StripChar(s[i])])

PunctuationToSpace(s) ==
    [i \in 1..Len(s) |-> IF s[i] \in Punctuation THEN " " ELSE s[i]]

\* replace(/\s+/g, ' '): every maximal run of whitespace becomes one space.
RECURSIVE CollapseWhitespace(_)
CollapseWhitespace(s) ==
    IF s = <<>> THEN <<>>
    ELSE IF Head(s) \in Whitespace
         THEN LET rest == CollapseWhitespace(Tail(s))
              IN IF rest # <<>> /\ Head(rest) = " " /\ Head(Tail(s)) \in Whitespace
                 THEN rest
                 ELSE <<" ">> \o rest
         ELSE <<Head(s)>> \o CollapseWhitespace(Tail(s))

RECURSIVE TrimStart(_)
TrimStart(s) ==
    IF s # <<>> /\ Head(s) \in Whitespace THEN TrimStart(Tail(s)) ELSE s

RECURSIVE TrimEnd(_)
TrimEnd(s) ==
    IF s # <<>> /\ s[Len(s)] \in Whitespace
    THEN TrimEnd(SubSeq(s, 1, Len(s) - 1))
    ELSE s

Trim(s) == TrimEnd(TrimStart(s))

\* keyword-matcher.js normalizeText
\* normalizeText with the accent marks removed before the decomposition.
normalizeText_StripBeforeDecompose(text) ==
    IF text = <<>> THEN <<>>
    ELSE Trim(CollapseWhitespace(PunctuationToSpace(NFD(StripMarks(ToLowerCase(text))))))

normalizeText(text) ==
    IF text = <<>> THEN <<>>
    ELSE Trim(CollapseWhitespace(PunctuationToSpace(StripMarks(NFD(ToLowerCase(text))))))

(***************************************************************************)
(* keyword-matcher.js                                                      *)
(***************************************************************************)
NonEmptyWord(w) == Len(w) > 0

\* containsKeyword without the word-by-word second attempt.
containsKeyword_PhraseOnly(normalizedMessage, normalizedKeyword) ==
    Includes(normalizedMessage, normalizedKeyword)

\* containsKeyword: the whole phrase, or else every word of it.
containsKeyword(normalizedMessage, normalizedKeyword) ==
    IF Includes(normalizedMessage, normalizedKeyword)
    THEN TRUE
    ELSE LET keywordWords == SelectSeq(SplitOnSpace(normalizedKeyword), NonEmptyWord)
             messageWords == SplitOnSpace(normalizedMessage)
         IN \A k \in 1..Len(keywordWords) : ArrayIncludes(messageWords, keywordWords[k])

\* What matchKeywords returns: null, or {matched, type}; Threw stands for
\* the TypeError it raises when normalizeText is given an entry that is not
\* a string (`text.toLowerCase is not a function`).
NoMatch == [matched |-> <<>>, type |-> "NULL"]
Threw == [matched |-> <<>>, type |-> "THROWN"]
Match(text, type) == [matched |-> text, type |-> type]

\* The JSON document null, and a rule-set document.  ScalarDocument is a
\* document of the wrong shape (a JSON number, string or array: none of the
\* four fields is there); BadEntryDocument is the rule set {"keywords": [123]},
\* whose only entry is not a string.
NullDocument == [kind |-> "null"]
ScalarDocument == [kind |-> "scalar"]
BadEntryDocument == [kind |-> "badentry"]
RuleSet(excluded, exact, kw, syn) ==
    [kind |-> "ruleset", excluded_words |-> excluded, exact_matches |-> exact,
     keywords |-> kw, synonyms |-> syn]

\* PASO 1: some excluded word is a substring of the message.
\* The veto with the excluded word compared as written, not normalized.
ExcludedHit_Raw(normalizedMessage, excluded_words) ==
    \E i \in 1..Len(excluded_words) :
        Includes(normalizedMessage, excluded_words[i])

ExcludedHit(normalizedMessage, excluded_words) ==
    \E i \in 1..Len(excluded_words) :
        Includes(normalizedMessage, normalizeText(excluded_words[i]))

\* PASO 2 and PASO 3: the first phrase of the list the message contains.
RECURSIVE ScanPhrases(_, _, _)
ScanPhrases(normalizedMessage, phrases, type) ==
    IF phrases = <<>> THEN NoMatch
    ELSE IF containsKeyword(normalizedMessage, normalizeText(Head(phrases)))
         THEN Match(Head(phrases), type)
         ELSE ScanPhrases(normalizedMessage, Tail(phrases), type)

\* One synonym group hits: its main word, or one of its synonyms, is a substring.
GroupHit(normalizedMessage, group) ==
    \/ Includes(normalizedMessage, normalizeText(group.main))
    \/ \E i \in 1..Len(group.list) :
           Includes(normalizedMessage, normalizeText(group.list[i]))

\* The scan reporting the text that hit: the synonym when the hit is on one.
ScanSynonyms_ReportsHit(normalizedMessage, groups) ==
    LET hits == {g \in 1..Len(groups) : GroupHit(normalizedMessage, groups[g])}
    IN IF hits = {} THEN NoMatch
       ELSE LET group == groups[CHOOSE g \in hits : \A k \in hits : g <= k]
                found == {i \in 1..Len(group.list) :
                             Includes(normalizedMessage, normalizeText(group.list[i]))}
            IN IF Includes(normalizedMessage, normalizeText(group.main))
               THEN Match(group.main, "SYNONYM")
               ELSE Match(group.list[CHOOSE i \in found : \A k \in found : i <= k],
                          "SYNONYM")

\* PASO 4: the first group that hits reports its main word.
RECURSIVE ScanSynonyms(_, _)
ScanSynonyms(normalizedMessage, groups) ==
    IF groups = <<>> THEN NoMatch
    ELSE IF GroupHit(normalizedMessage, Head(groups))
         THEN Match(Head(groups).main, "SYNONYM")
         ELSE ScanSynonyms(normalizedMessage, Tail(groups))

\* matchKeywords with the keywords tier scanned before exact_matches.
matchKeywords_KeywordsFirst(messageText, triggerKeywords) ==
    IF messageText = <<>> \/ triggerKeywords.kind = "null"
    THEN NoMatch
    ELSE IF triggerKeywords.kind = "scalar" THEN NoMatch
    ELSE IF triggerKeywords.kind = "badentry" THEN Threw
    ELSE LET normalizedMessage == normalizeText(messageText)
             exact == ScanPhrases(normalizedMessage, triggerKeywords.exact_matches, "EXACT")
             kw == ScanPhrases(normalizedMessage, triggerKeywords.keywords, "KEYWORD")
             syn == ScanSynonyms(normalizedMessage, triggerKeywords.synonyms)
         IN IF ExcludedHit(normalizedMessage, triggerKeywords.excluded_words) THEN NoMatch
            ELSE IF kw # NoMatch THEN kw
            ELSE IF exact # NoMatch THEN exact
            ELSE syn

matchKeywords(messageText, triggerKeywords) ==
    IF messageText = <<>> \/ triggerKeywords.kind = "null"
    THEN NoMatch
    ELSE IF triggerKeywords.kind = "scalar" THEN NoMatch
    ELSE IF triggerKeywords.kind = "badentry" THEN Threw
    ELSE LET normalizedMessage == normalizeText(messageText)
             exact == ScanPhrases(normalizedMessage, triggerKeywords.exact_matches, "EXACT")
             kw == ScanPhrases(normalizedMessage, triggerKeywords.keywords, "KEYWORD")
             syn == ScanSynonyms(normalizedMessage, triggerKeywords.synonyms)
         IN IF ExcludedHit(normalizedMessage, triggerKeywords.excluded_words) THEN NoMatch
            ELSE IF exact # NoMatch THEN exact
            ELSE IF kw # NoMatch THEN kw
            ELSE syn

(***************************************************************************)
(* helpers.js replaceVariables.  A text is a sequence whose elements are   *)
(* plain characters or whole {key} tokens; variables is the list of the    *)
(* entries of the object, in the order Object.entries gives them.          *)
(***************************************************************************)
\* The key a token names, the key lower-cased; the `i` flag of the pattern
\* makes {NOMBRE} a token of the key nombre.
TokenKey ==
    [t \in {"{nombre}", "{NOMBRE}", "{telefono}", "{otro}"} |->
        CASE t \in {"{nombre}", "{NOMBRE}"} -> "nombre"
          [] t = "{telefono}" -> "telefono"
          [] OTHER -> "otro"]
IsTokenOf(symbol, key) == symbol \in DOMAIN TokenKey /\ TokenKey[symbol] = key

\* result.replace(new RegExp(`\\{${key}\\}`, 'gi'), value)
ReplaceAll(text, key, value) ==
    Concat([i \in 1..Len(text) |-> IF IsTokenOf(text[i], key) THEN value ELSE <<text[i]>>])

\* The loop over Object.entries(variables), lines 27-31.
RECURSIVE ReplaceEach(_, _)
ReplaceEach(result, variables) ==
    IF variables = <<>> THEN result
    ELSE ReplaceEach(ReplaceAll(result, Head(variables).key, Head(variables).value),
                     Tail(variables))

replaceVariables(content, variables) ==
    IF content = <<>> THEN content ELSE ReplaceEach(content, variables)

(***************************************************************************)
(* campaign.service.js                                                     *)
(***************************************************************************)
\* A row of the campaigns table.  trigger_keywords is a document of kind
\* "ruleset" or "null", or of kind "invalid": text JSON.parse rejects.
CampaignRow(id, priority, active, doc) ==
    [id |-> id, priority |-> priority, is_active |-> active, trigger_keywords |-> doc]

InvalidDocument == [kind |-> "invalid"]

\* ORDER BY priority DESC, rows of equal priority in storage order.
RECURSIVE InsertByPriority(_, _)
InsertByPriority(row, sorted) ==
    IF sorted = <<>> THEN <<row>>
    ELSE IF Head(sorted).priority >= row.priority
         THEN <<Head(sorted)>> \o InsertByPriority(row, Tail(sorted))
         ELSE <<row>> \o sorted

RECURSIVE OrderByPriorityDesc(_)
OrderByPriorityDesc(rows) ==
    IF rows = <<>> THEN <<>>
    ELSE InsertByPriority(rows[Len(rows)],
                          OrderByPriorityDesc(SubSeq(rows, 1, Len(rows) - 1)))

IsActiveRow(row) == row.is_active

\* The query of detectCampaign.
\* The query without its ORDER BY clause.
SelectActiveCampaigns_Unordered(table) == SelectSeq(table, IsActiveRow)

SelectActiveCampaigns(table) == OrderByPriorityDesc(SelectSeq(table, IsActiveRow))

NoCampaign == [campaignId |-> 0, matchedKeyword |-> <<>>, matchType |-> "NULL", priority |-> 0]
\* detectCampaign rethrows what matchKeywords raised (lines 69-72).
CampaignError ==
    [campaignId |-> 0, matchedKeyword |-> <<>>, matchType |-> "THROWN", priority |-> 0]
\* The loop of detectCampaign over the rows the query returned.
RECURSIVE FirstMatchingCampaign(_, _)
FirstMatchingCampaign(messageText, rows) ==
    IF rows = <<>> THEN NoCampaign
    ELSE LET campaign == Head(rows)
         IN IF campaign.trigger_keywords.kind = "invalid"
            THEN FirstMatchingCampaign(messageText, Tail(rows))
            ELSE LET match == matchKeywords(messageText, campaign.trigger_keywords)
                 IN IF match = Threw THEN CampaignError
                    ELSE IF match # NoMatch
                    THEN [campaignId |-> campaign.id, matchedKeyword |-> match.matched,
                          matchType |-> match.type, priority |-> campaign.priority]
                    ELSE FirstMatchingCampaign(messageText, Tail(rows))

detectCampaign(messageText, table) ==
    IF messageText = <<>> \/ TrimStart(messageText) = <<>>
    THEN NoCampaign
    ELSE FirstMatchingCampaign(messageText, SelectActiveCampaigns(table))

(***************************************************************************)
(* Inputs of the function-level specifications.                            *)
(***************************************************************************)
MsgChars == {"a", "b", " ", "!", "A_ACUTE"}
Messages == UNION {[1..n -> MsgChars] : n \in 0..MaxMsgLen}

\* Rule-set entries: an upper-case word, a word, a two-word phrase, and an
\* entry that normalizes to the empty string.
Phrases == {<<"A">>, <<"b">>, <<"b", " ", "a">>, <<"!">>}
PhraseLists(n) == [1..n -> Phrases]

\* Synonym maps (main word -> synonyms, in insertion order) holding n words
\* in all; the keys of a map are distinct.
RECURSIVE SynonymMaps(_)
SynonymMaps(n) ==
    IF n = 0 THEN {<<>>}
    ELSE UNION {
           {<<[main |-> mk[1], list |-> l]>> \o rest :
                l \in PhraseLists(mk[2]),
                rest \in {r \in SynonymMaps(n - 1 - mk[2]) :
                              \A i \in 1..Len(r) : r[i].main # mk[1]}}
           : mk \in Phrases \X (0..(n - 1))}

EntrySplits ==
    {t \in (0..MaxEntries) \X (0..MaxEntries) \X (0..MaxEntries) \X (0..MaxEntries) :
        t[1] + t[2] + t[3] + t[4] <= MaxEntries}

\* Every rule set with at most MaxEntries entries over its four fields.
RuleSets ==
    UNION {{RuleSet(e, x, k, s) :
                e \in PhraseLists(t[1]), x \in PhraseLists(t[2]),
                k \in PhraseLists(t[3]), s \in SynonymMaps(t[4])}
           : t \in EntrySplits}

\* trigger_keywords documents of the campaigns of the selector's inputs.
CampaignDocuments ==
    { InvalidDocument,
      RuleSet(<<>>, <<>>, <<<<"A">>>>, <<>>),
      RuleSet(<<>>, <<>>, <<<<"b">>>>, <<>>),
      RuleSet(<<<<"b">>>>, <<>>, <<<<"A">>>>, <<>>),
      RuleSet(<<>>, <<<<"b", " ", "a">>>>, <<>>, <<>>),
      RuleSet(<<>>, <<>>, <<>>, <<[main |-> <<"A">>, list |-> <<<<"b">>>>]>>) }
Priorities == {1, 2}

\* The rows a campaign table is made of: an active row carries any of the
\* documents, an inactive row one that matches the same messages as an
\* active one.
CampaignRowKinds ==
    (Priorities \X {TRUE} \X CampaignDocuments)
        \cup (Priorities \X {FALSE} \X {RuleSet(<<>>, <<>>, <<<<"A">>>>, <<>>)})

\* Campaign tables of at most MaxCampaigns rows; the id of a row is its position.
CampaignTables ==
    UNION {{[i \in 1..n |-> CampaignRow(i, row[i][1], row[i][2], row[i][3])] :
                row \in [1..n -> CampaignRowKinds]}
           : n \in 0..MaxCampaigns}

(***************************************************************************)
(* conversation.service.js: operations on the bot_conversations table.     *)
(* The table is a sequence of rows; a row's id is its position, and rows   *)
(* are inserted in the order of conversation_started_at.                   *)
(***************************************************************************)
validStatuses == {"INITIATED", "IN_PROGRESS", "COMPLETED", "FAILED", "CANCELLED"}
ActiveStatuses == {"INITIATED", "IN_PROGRESS"}
TerminalStatuses == {"COMPLETED", "FAILED", "CANCELLED"}

\* INSERT INTO bot_conversations ... 'INITIATED'
createConversation(table, userPhone, campaignId) ==
    Append(table, [user_phone |-> userPhone, campaign_id |-> campaignId,
                   status |-> "INITIATED", messages_sent |-> 0])

\* UPDATE ... SET status = ? WHERE id = ?   (no row with that id: no change)
SetStatus(table, conversationId, status) ==
    [id \in 1..Len(table) |->
        IF id = conversationId THEN [table[id] EXCEPT !.status = status] ELSE table[id]]

updateConversationStatus(table, conversationId, status) ==
    IF status \notin validStatuses THEN table ELSE SetStatus(table, conversationId, status)

\* UPDATE ... SET messages_sent = messages_sent + 1, status = 'IN_PROGRESS' WHERE id = ?
incrementMessagesSent(table, conversationId) ==
    [id \in 1..Len(table) |->
        IF id = conversationId
        THEN [table[id] EXCEPT !.messages_sent = @ + 1, !.status = "IN_PROGRESS"]
        ELSE table[id]]

completeConversation(table, conversationId) == SetStatus(table, conversationId, "COMPLETED")

failConversation(table, conversationId) == SetStatus(table, conversationId, "FAILED")

\* The rows the query of getActiveConversation selects.
ActiveIds(table, userPhone) ==
    {id \in 1..Len(table) :
        table[id].user_phone = userPhone /\ table[id].status \in ActiveStatuses}

\* ORDER BY conversation_started_at DESC LIMIT 1; 0 stands for null.
getActiveConversation(table, userPhone) ==
    IF ActiveIds(table, userPhone) = {} THEN 0
    ELSE CHOOSE id \in ActiveIds(table, userPhone) :
             \A other \in ActiveIds(table, userPhone) : other <= id

(***************************************************************************)
(* ratelimit.service.js.  Time is counted in ticks of 30 minutes.          *)
(***************************************************************************)
NULL == -1
HourTicks == 2
DayTicks == 48
RateLimitHour == 3
RateLimitDay == 8

\* A row of user_rate_limit; exists = FALSE stands for no row.
\* The blocked_reason column of a row that was never blocked.
NoReason == ""
NoRow ==
    [exists |-> FALSE, is_blocked |-> FALSE, blocked_reason |-> NoReason,
     blocked_until |-> NULL,
     trigger_count_hour |-> 0, trigger_count_day |-> 0, trigger_count_total |-> 0,
     last_trigger_at |-> NULL]

Verdict(allowed, reason, row) == [allowed |-> allowed, reason |-> reason, row |-> row]

\* A limiter that counts the triggers it denies.
checkRateLimit_CountsDenied(permanentlyBlocked, row, t) ==
    IF permanentlyBlocked THEN Verdict(FALSE, "BLOCKED_PERMANENT", row)
    ELSE IF ~row.exists THEN Verdict(TRUE, "NEW_USER", row)
    ELSE IF row.is_blocked
         THEN IF row.blocked_until # NULL /\ t > row.blocked_until
              THEN Verdict(TRUE, "UNBLOCKED",
                           [row EXCEPT !.is_blocked = FALSE, !.blocked_until = NULL])
              ELSE Verdict(FALSE, "BLOCKED_TEMPORARY", row)
    ELSE IF row.last_trigger_at # NULL
            /\ row.last_trigger_at > t - HourTicks
            /\ row.trigger_count_hour >= RateLimitHour
         THEN Verdict(FALSE, "RATE_LIMIT_HOUR", [row EXCEPT !.trigger_count_total = @ + 1])
    ELSE IF row.last_trigger_at # NULL
            /\ row.last_trigger_at > t - DayTicks
            /\ row.trigger_count_day >= RateLimitDay
         THEN Verdict(FALSE, "RATE_LIMIT_DAY", [row EXCEPT !.trigger_count_total = @ + 1])
    ELSE Verdict(TRUE, "OK", row)

\* A limiter that reports UNBLOCKED without clearing the block.
checkRateLimit_KeepsBlock(permanentlyBlocked, row, t) ==
    IF permanentlyBlocked THEN Verdict(FALSE, "BLOCKED_PERMANENT", row)
    ELSE IF ~row.exists THEN Verdict(TRUE, "NEW_USER", row)
    ELSE IF row.is_blocked
         THEN IF row.blocked_until # NULL /\ t > row.blocked_until
              THEN Verdict(TRUE, "UNBLOCKED", row)
              ELSE Verdict(FALSE, "BLOCKED_TEMPORARY", row)
    ELSE IF row.last_trigger_at # NULL
            /\ row.last_trigger_at > t - HourTicks
            /\ row.trigger_count_hour >= RateLimitHour
         THEN Verdict(FALSE, "RATE_LIMIT_HOUR", row)
    ELSE IF row.last_trigger_at # NULL
            /\ row.last_trigger_at > t - DayTicks
            /\ row.trigger_count_day >= RateLimitDay
         THEN Verdict(FALSE, "RATE_LIMIT_DAY", row)
    ELSE Verdict(TRUE, "OK", row)

\* A limiter that takes a block without an end for one that has ended.
checkRateLimit_NullExpires(permanentlyBlocked, row, t) ==
    IF permanentlyBlocked THEN Verdict(FALSE, "BLOCKED_PERMANENT", row)
    ELSE IF ~row.exists THEN Verdict(TRUE, "NEW_USER", row)
    ELSE IF row.is_blocked
         THEN IF row.blocked_until = NULL \/ t > row.blocked_until
              THEN Verdict(TRUE, "UNBLOCKED",
                           [row EXCEPT !.is_blocked = FALSE, !.blocked_until = NULL])
              ELSE Verdict(FALSE, "BLOCKED_TEMPORARY", row)
    ELSE IF row.last_trigger_at # NULL
            /\ row.last_trigger_at > t - HourTicks
            /\ row.trigger_count_hour >= RateLimitHour
         THEN Verdict(FALSE, "RATE_LIMIT_HOUR", row)
    ELSE IF row.last_trigger_at # NULL
            /\ row.last_trigger_at > t - DayTicks
            /\ row.trigger_count_day >= RateLimitDay
         THEN Verdict(FALSE, "RATE_LIMIT_DAY", row)
    ELSE Verdict(TRUE, "OK", row)

\* A limiter that denies only above the hour limit, not at it.
checkRateLimit_AboveHourLimit(permanentlyBlocked, row, t) ==
    IF permanentlyBlocked THEN Verdict(FALSE, "BLOCKED_PERMANENT", row)
    ELSE IF ~row.exists THEN Verdict(TRUE, "NEW_USER", row)
    ELSE IF row.is_blocked
         THEN IF row.blocked_until # NULL /\ t > row.blocked_until
              THEN Verdict(TRUE, "UNBLOCKED",
                           [row EXCEPT !.is_blocked = FALSE, !.blocked_until = NULL])
              ELSE Verdict(FALSE, "BLOCKED_TEMPORARY", row)
    ELSE IF row.last_trigger_at # NULL
            /\ row.last_trigger_at > t - HourTicks
            /\ row.trigger_count_hour > RateLimitHour
         THEN Verdict(FALSE, "RATE_LIMIT_HOUR", row)
    ELSE IF row.last_trigger_at # NULL
            /\ row.last_trigger_at > t - DayTicks
            /\ row.trigger_count_day >= RateLimitDay
         THEN Verdict(FALSE, "RATE_LIMIT_DAY", row)
    ELSE Verdict(TRUE, "OK", row)

\* A limiter that tests the day limit before the hour limit.
checkRateLimit_DayFirst(permanentlyBlocked, row, t) ==
    IF permanentlyBlocked THEN Verdict(FALSE, "BLOCKED_PERMANENT", row)
    ELSE IF ~row.exists THEN Verdict(TRUE, "NEW_USER", row)
    ELSE IF row.is_blocked
         THEN IF row.blocked_until # NULL /\ t > row.blocked_until
              THEN Verdict(TRUE, "UNBLOCKED",
                           [row EXCEPT !.is_blocked = FALSE, !.blocked_until = NULL])
              ELSE Verdict(FALSE, "BLOCKED_TEMPORARY", row)
    ELSE IF row.last_trigger_at # NULL
            /\ row.last_trigger_at > t - DayTicks
            /\ row.trigger_count_day >= RateLimitDay
         THEN Verdict(FALSE, "RATE_LIMIT_DAY", row)
    ELSE IF row.last_trigger_at # NULL
            /\ row.last_trigger_at > t - HourTicks
            /\ row.trigger_count_hour >= RateLimitHour
         THEN Verdict(FALSE, "RATE_LIMIT_HOUR", row)
    ELSE Verdict(TRUE, "OK", row)

\* checkRateLimit with every store access succeeding: the verdict, and the row
\* the check leaves in the table.
checkRateLimit(permanentlyBlocked, row, t) ==
    IF permanentlyBlocked THEN Verdict(FALSE, "BLOCKED_PERMANENT", row)
    ELSE IF ~row.exists THEN Verdict(TRUE, "NEW_USER", row)
    ELSE IF row.is_blocked
         THEN IF row.blocked_until # NULL /\ t > row.blocked_until
              THEN Verdict(TRUE, "UNBLOCKED",
                           [row EXCEPT !.is_blocked = FALSE, !.blocked_until = NULL])
              ELSE Verdict(FALSE, "BLOCKED_TEMPORARY", row)
    ELSE IF row.last_trigger_at # NULL
            /\ row.last_trigger_at > t - HourTicks
            /\ row.trigger_count_hour >= RateLimitHour
         THEN Verdict(FALSE, "RATE_LIMIT_HOUR", row)
    ELSE IF row.last_trigger_at # NULL
            /\ row.last_trigger_at > t - DayTicks
            /\ row.trigger_count_day >= RateLimitDay
         THEN Verdict(FALSE, "RATE_LIMIT_DAY", row)
    ELSE Verdict(TRUE, "OK", row)

\* A catch that fails closed.
checkRateLimitError_Denies(row) == Verdict(FALSE, "ERROR_CHECK", row)

\* The catch of checkRateLimit: a failed store access allows the sender.
checkRateLimitError(row) == Verdict(TRUE, "ERROR_CHECK", row)

\* An update that resets the day counter with the hour counter.
updateRateLimit_SharedWindow(row, t) ==
    IF ~row.exists
    THEN [exists |-> TRUE, is_blocked |-> FALSE, blocked_reason |-> NoReason,
          blocked_until |-> NULL,
          trigger_count_hour |-> 1, trigger_count_day |-> 1, trigger_count_total |-> 1,
          last_trigger_at |-> t]
    ELSE [row EXCEPT
            !.trigger_count_hour =
                IF row.last_trigger_at # NULL /\ row.last_trigger_at < t - HourTicks
                THEN 1 ELSE @ + 1,
            !.trigger_count_day =
                IF row.last_trigger_at # NULL /\ row.last_trigger_at < t - HourTicks
                THEN 1 ELSE @ + 1,
            !.trigger_count_total = @ + 1,
            !.last_trigger_at = t]

\* INSERT ... ON DUPLICATE KEY UPDATE of updateRateLimit.
updateRateLimit(row, t) ==
    IF ~row.exists
    THEN [exists |-> TRUE, is_blocked |-> FALSE, blocked_reason |-> NoReason,
          blocked_until |-> NULL,
          trigger_count_hour |-> 1, trigger_count_day |-> 1, trigger_count_total |-> 1,
          last_trigger_at |-> t]
    ELSE [row EXCEPT
            !.trigger_count_hour =
                IF row.last_trigger_at # NULL /\ row.last_trigger_at < t - HourTicks
                THEN 1 ELSE @ + 1,
            !.trigger_count_day =
                IF row.last_trigger_at # NULL /\ row.last_trigger_at < t - DayTicks
                THEN 1 ELSE @ + 1,
            !.trigger_count_total = @ + 1,
            !.last_trigger_at = t]

\* The store accesses of checkRateLimit, in the order it makes them: the
\* blocked_numbers read (line 13), the user_rate_limit read (line 27) and the
\* auto-unblock write (line 59).  failAt names the access that fails, if any;
\* an access that is not reached cannot fail.
StoreAccesses == {"none", "blocked_numbers", "user_rate_limit", "unblock"}
checkRateLimitFailing(failAt, permanentlyBlocked, row, t) ==
    IF failAt = "blocked_numbers" THEN checkRateLimitError(row)
    ELSE IF permanentlyBlocked THEN checkRateLimit(permanentlyBlocked, row, t)
    ELSE IF failAt = "user_rate_limit" THEN checkRateLimitError(row)
    ELSE LET verdict == checkRateLimit(permanentlyBlocked, row, t)
         IN IF failAt = "unblock" /\ verdict.reason = "UNBLOCKED"
            THEN checkRateLimitError(row)
            ELSE verdict

\* blockUser(userPhone, reason, hoursBlocked): hoursBlocked is NULL or a
\* number of hours; `hoursBlocked ? ... : null` takes 0 like null.  A row the
\* INSERT creates has the counters at their column default 0 and no
\* last_trigger_at.
blockUser(row, reason, hoursBlocked, t) ==
    LET blockedUntil == IF hoursBlocked # NULL /\ hoursBlocked # 0
                        THEN t + hoursBlocked * HourTicks
                        ELSE NULL
    IN IF ~row.exists
       THEN [NoRow EXCEPT !.exists = TRUE, !.is_blocked = TRUE,
                          !.blocked_reason = reason, !.blocked_until = blockedUntil]
       ELSE [row EXCEPT !.is_blocked = TRUE, !.blocked_reason = reason,
                        !.blocked_until = blockedUntil]

(***************************************************************************)
(* message.service.js: the plan of a campaign.                             *)
(***************************************************************************)
\* A row of the messages table joined with its type; media is the number of
\* message_media rows of the message.
MessageRow(id, type, sortOrder, delay, media) ==
    [id |-> id, type_code |-> type, sort_order |-> sortOrder,
     delay_seconds |-> delay, media |-> media]

RECURSIVE InsertBySortOrder(_, _)
InsertBySortOrder(row, sorted) ==
    IF sorted = <<>> THEN <<row>>
    ELSE IF Head(sorted).sort_order <= row.sort_order
         THEN <<Head(sorted)>> \o InsertBySortOrder(row, Tail(sorted))
         ELSE <<row>> \o sorted

\* ORDER BY m.sort_order ASC
RECURSIVE OrderBySortOrder(_)
OrderBySortOrder(rows) ==
    IF rows = <<>> THEN <<>>
    ELSE InsertBySortOrder(rows[Len(rows)],
                           OrderBySortOrder(SubSeq(rows, 1, Len(rows) - 1)))

\* getCampaignMessages: the stored rows of the campaign, ordered.
getCampaignMessages(stored) == OrderBySortOrder(stored)

(***************************************************************************)
(* whatsapp.service.js handleIncomingMessage and message.service.js        *)
(* sendSequentialMessages: one run per inbound message event.  A run       *)
(* moves from await to await; between two awaits other runs may step.      *)
(***************************************************************************)
Users == {"u1", "u2", "u3", "u4"}
GroupChat == "g@g.us"
Senders == Users \cup {GroupChat}
Bodies == {<<>>, <<" ">>, <<"a">>, <<"!">>}

\* What client.sendMessage does: it returns, it throws an ordinary error, or
\* it throws 'Connection closed' / 'Session closed'.
SendOutcomes == {"sent", "error", "fatal"}
DownloadOutcomes == {"fetched", "error"}

Runs == DOMAIN runs

\* The id a sender reports: sentMsg.id._serialized of the message sent for
\* media row j (0 for a sender without a loop), `GALLERY_<timestamp>` of line
\* 393, or null.
NoMessageId == [kind |-> "null", media |-> 0]
SentId(j) == [kind |-> "sent", media |-> j]
PlaceholderId == [kind |-> "GALLERY_", media |-> 0]

IdleRun ==
    [pc |-> "idle", user |-> "", fromMe |-> FALSE, text |-> <<>>, reason |-> "",
     campaignId |-> 0,
     convId |-> 0, plan |-> <<>>, i |-> 0, j |-> 0, lastMessageId |-> NoMessageId,
     gallery |-> <<>>, logged |-> <<>>,
     sent |-> 0, failed |-> 0, outcomes |-> <<>>, result |-> "none",
     finalOp |-> "none", end |-> "none"]

\* A store access succeeds, or fails while the failure budget lasts.
StoreOutcomes == IF storeFailures < MaxStoreFailures THEN {TRUE, FALSE} ELSE {TRUE}
CountFailure(ok) == storeFailures' = IF ok THEN storeFailures ELSE storeFailures + 1

\* The run returns from handleIncomingMessage.
Ended(run, how) == [run EXCEPT !.pc = "done", !.end = how]

\* lines 505-513: a message of the bot itself, of a group chat, or without
\* text is dropped.
\* A filter that lets group chats through.
Discards_GroupsPass(from, fromMe, body) ==
    fromMe \/ body = <<>> \/ Trim(body) = <<>>

Discards(from, fromMe, body) ==
    fromMe \/ from = GroupChat \/ body = <<>> \/ Trim(body) = <<>>

\* The message event is emitted; lines 506-517.
Arrive(r) ==
    /\ runs[r].pc = "idle"
    /\ \A q \in Runs : q < r => runs[q].pc # "idle"
    /\ \E from \in Senders, fromMe \in BOOLEAN, body \in Bodies :
          runs' = [runs EXCEPT ![r] =
              LET received == [@ EXCEPT !.user = from, !.fromMe = fromMe, !.text = body]
              IN IF Discards(from, fromMe, body)
                 THEN Ended(received, "discarded")
                 ELSE [received EXCEPT !.pc = "getActive"]]
    /\ UNCHANGED <<lifecycleVars, harnessVars, triggerLog, storeVars, envVars, sendLog>>

\* lines 522-526: the active-conversation gate.
GetActive(r) ==
    /\ runs[r].pc = "getActive"
    /\ \E ok \in StoreOutcomes :
          /\ CountFailure(ok)
          /\ runs' = [runs EXCEPT ![r] =
                IF ~ok THEN Ended(@, "error")
                ELSE IF getActiveConversation(conversations, @.user) # 0
                     THEN Ended(@, "ignored")
                     ELSE [@ EXCEPT !.pc = "checkRate"]]
    /\ UNCHANGED <<lifecycleVars, harnessVars, triggerLog, storeVars, now, sendLog>>

\* lines 528-532: checkRateLimit, which never throws.
CheckRate(r) ==
    /\ runs[r].pc = "checkRate"
    /\ \E ok \in StoreOutcomes :
          LET u == runs[r].user
              v == IF ok THEN checkRateLimit(u \in blockedNumbers, rateLimit[u], now)
                         ELSE checkRateLimitError(rateLimit[u])
          IN /\ CountFailure(ok)
             /\ rateLimit' = [rateLimit EXCEPT ![u] = v.row]
             /\ runs' = [runs EXCEPT ![r] =
                   IF v.allowed THEN [@ EXCEPT !.pc = "detect", !.reason = v.reason]
                   ELSE Ended([@ EXCEPT !.reason = v.reason], "denied")]
    /\ UNCHANGED <<lifecycleVars, harnessVars, triggerLog, conversations, blockedNumbers, campaigns, campaignMessages, now, sendLog>>

\* lines 534-538: detectCampaign; a failed query is rethrown.
Detect(r) ==
    /\ runs[r].pc = "detect"
    /\ \E ok \in StoreOutcomes :
          LET campaignMatch == detectCampaign(runs[r].text, campaigns)
          IN /\ CountFailure(ok)
             /\ runs' = [runs EXCEPT ![r] =
                   IF ~ok \/ campaignMatch = CampaignError THEN Ended(@, "error")
                   ELSE IF campaignMatch = NoCampaign THEN Ended(@, "nomatch")
                   ELSE [@ EXCEPT !.pc = "updateRate",
                                  !.campaignId = campaignMatch.campaignId]]
    /\ UNCHANGED <<lifecycleVars, harnessVars, triggerLog, storeVars, now, sendLog>>

\* line 542: updateRateLimit.
UpdateRate(r) ==
    /\ runs[r].pc = "updateRate"
    /\ \E ok \in StoreOutcomes :
          LET u == runs[r].user
          IN /\ CountFailure(ok)
             /\ rateLimit' = IF ok THEN [rateLimit EXCEPT ![u] = updateRateLimit(@, now)]
                                   ELSE rateLimit
             /\ triggerLog' = IF ok THEN [triggerLog EXCEPT ![u] = Append(@, now)]
                                    ELSE triggerLog
             /\ runs' = [runs EXCEPT ![r] =
                   IF ok THEN [@ EXCEPT !.pc = "create"] ELSE Ended(@, "error")]
    /\ UNCHANGED <<lifecycleVars, harnessVars, conversations, blockedNumbers, campaigns, campaignMessages, now, sendLog>>

\* lines 544-552: createConversation.
Create(r) ==
    /\ runs[r].pc = "create"
    /\ \E ok \in StoreOutcomes :
          /\ CountFailure(ok)
          /\ conversations' =
                IF ok THEN createConversation(conversations, runs[r].user, runs[r].campaignId)
                      ELSE conversations
          /\ runs' = [runs EXCEPT ![r] =
                IF ok THEN [@ EXCEPT !.pc = "getPlan", !.convId = Len(conversations) + 1]
                      ELSE Ended(@, "error")]
    /\ UNCHANGED <<lifecycleVars, harnessVars, triggerLog, rateLimit, blockedNumbers, campaigns, campaignMessages, now, sendLog>>

\* lines 556-562: getCampaignMessages; the campaign has one of the stored plans.
GetPlan(r) ==
    /\ runs[r].pc = "getPlan"
    /\ \E ok \in StoreOutcomes :
          LET messages == getCampaignMessages(campaignMessages)
          IN /\ CountFailure(ok)
             /\ runs' = [runs EXCEPT ![r] =
                   IF ~ok THEN Ended(@, "error")
                   ELSE IF Len(messages) = 0 THEN [@ EXCEPT !.pc = "failEmpty"]
                   ELSE [@ EXCEPT !.pc = "item", !.plan = messages, !.i = 1]]
    /\ UNCHANGED <<lifecycleVars, harnessVars, triggerLog, storeVars, now, sendLog>>

\* line 560: failConversation(conversationId, 'Sin mensajes configurados').
FailEmpty(r) ==
    /\ runs[r].pc = "failEmpty"
    /\ \E ok \in StoreOutcomes :
          /\ CountFailure(ok)
          /\ conversations' = IF ok THEN failConversation(conversations, runs[r].convId)
                                    ELSE conversations
          /\ runs' = [runs EXCEPT ![r] = Ended(@, IF ok THEN "emptyplan" ELSE "error")]
    /\ UNCHANGED <<lifecycleVars, harnessVars, triggerLog, rateLimit, blockedNumbers, campaigns, campaignMessages, now, sendLog>>

(***************************************************************************)
(* sendSequentialMessages, message.service.js lines 187-276.               *)
(***************************************************************************)
CurrentItem(run) == run.plan[run.i]

\* The loop moves to the next message, or ends and the function returns.
NextItem(run) ==
    IF run.i < Len(run.plan)
    THEN [run EXCEPT !.pc = "item", !.i = @ + 1, !.j = 0,
                     !.lastMessageId = NoMessageId]
    ELSE [run EXCEPT !.pc = "finalize", !.result = "returned", !.j = 0,
                     !.lastMessageId = NoMessageId]

\* The inner catch, lines 245-260: count the failure, rethrow a critical one.
\* The rethrown error leaves sendSequentialMessages (line 274) and is caught
\* by handleIncomingMessage (line 586).
\* A catch that rethrows every error.
ItemFailed_AbortsOnAny(run, outcome) ==
    Ended([run EXCEPT !.failed = @ + 1, !.outcomes = Append(@, "failed"),
                      !.result = "threw"], "fatal")

\* outcomes keeps how each turn of the loop ended, in the order of the turns.
IsCritical(outcome) == outcome = "fatal"
ItemFailed(run, outcome) ==
    LET counted == [run EXCEPT !.failed = @ + 1, !.outcomes = Append(@, "failed")]
    IN IF IsCritical(outcome)
       THEN Ended([counted EXCEPT !.result = "threw"], "fatal")
       ELSE NextItem(counted)

\* Lines 236-243 after the sender returned: logMessageSent is called with the
\* id the sender reported (logged keeps the calls), then
\* incrementMessagesSent may throw, and the throw lands in the inner catch.
ItemSent(run, whatsappMessageId, incremented) ==
    LET noted == [run EXCEPT !.logged =
                     Append(@, [item |-> CurrentItem(run).id, id |-> whatsappMessageId])]
    IN IF incremented
       THEN NextItem([noted EXCEPT !.sent = @ + 1, !.outcomes = Append(@, "sent")])
       ELSE ItemFailed(noted, "error")

LogSend(r, outcome) ==
    sendLog' = [sendLog EXCEPT ![r] =
        Append(@, [item |-> CurrentItem(runs[r]).id, type |-> CurrentItem(runs[r]).type_code,
                   media |-> runs[r].j, outcome |-> outcome])]

\* lines 199-202: sleep(delay_seconds * 1000).
Sleep(r) ==
    /\ runs[r].pc = "item"
    /\ CurrentItem(runs[r]).delay_seconds > 0
    /\ runs' = [runs EXCEPT ![r].pc = "send"]
    /\ UNCHANGED <<lifecycleVars, harnessVars, triggerLog, storeVars, envVars, sendLog>>

\* A loop that does not wait for the delay of the message.
AtSwitch_NoWait(r) == runs[r].pc \in {"item", "send"}

AtSwitch(r) ==
    \/ runs[r].pc = "send"
    \/ runs[r].pc = "item" /\ CurrentItem(runs[r]).delay_seconds = 0

\* The bookkeeping after a sender returned: `returned` is the run as the
\* sender left it, whatsappMessageId the id it reported.
Bookkeeping(r, returned, whatsappMessageId, incremented) ==
    /\ CountFailure(incremented)
    /\ conversations' = IF incremented
                        THEN incrementMessagesSent(conversations, runs[r].convId)
                        ELSE conversations
    /\ runs' = [runs EXCEPT ![r] = ItemSent(returned, whatsappMessageId, incremented)]

\* The sender threw.
Thrown(r, outcome, storeOk) ==
    /\ CountFailure(storeOk)
    /\ conversations' = conversations
    /\ runs' = [runs EXCEPT ![r] = ItemFailed(@, outcome)]

\* case 'TEXT': sendTextMessage, lines 281-285.
SendText(r) ==
    /\ AtSwitch(r)
    /\ CurrentItem(runs[r]).type_code = "TEXT"
    /\ \E outcome \in SendOutcomes, incremented \in StoreOutcomes :
          /\ outcome # "sent" => incremented
          /\ LogSend(r, outcome)
          /\ IF outcome = "sent" THEN Bookkeeping(r, runs[r], SentId(0), incremented)
                                 ELSE Thrown(r, outcome, TRUE)
    /\ UNCHANGED <<lifecycleVars, harnessVars, triggerLog, rateLimit, blockedNumbers, campaigns, campaignMessages, now>>

\* What a single-media sender can do: the media query fails, there is no
\* media row, the download fails, or client.sendMessage is called.
MediaAttempts(item) ==
    (IF FALSE \in StoreOutcomes THEN {"query_error"} ELSE {})
    \cup (IF item.media = 0 THEN {"no_media"}
          ELSE {"download_error"} \cup SendOutcomes)

\* case 'IMAGE' / 'AUDIO' / 'DOCUMENT': lines 290-355.
SendMedia(r) ==
    /\ AtSwitch(r)
    /\ CurrentItem(runs[r]).type_code \in {"IMAGE", "AUDIO", "DOCUMENT"}
    /\ \E attempt \in MediaAttempts(CurrentItem(runs[r])), incremented \in StoreOutcomes :
          /\ attempt # "sent" => incremented
          /\ IF attempt \in SendOutcomes THEN LogSend(r, attempt) ELSE sendLog' = sendLog
          /\ IF attempt = "sent" THEN Bookkeeping(r, runs[r], SentId(0), incremented)
                                 ELSE Thrown(r, attempt, attempt # "query_error")
    /\ UNCHANGED <<lifecycleVars, harnessVars, triggerLog, rateLimit, blockedNumbers, campaigns, campaignMessages, now>>

\* How sendGalleryMessage starts: the media query fails, there is no media
\* row, or the loop over the media rows begins.
GalleryStarts(item) ==
    (IF FALSE \in StoreOutcomes THEN {"query_error"} ELSE {})
    \cup (IF item.media = 0 THEN {"no_media"} ELSE {"begin"})

\* case 'GALLERY': sendGalleryMessage up to its loop, lines 360-369.
StartGallery(r) ==
    /\ AtSwitch(r)
    /\ CurrentItem(runs[r]).type_code = "GALLERY"
    /\ \E attempt \in GalleryStarts(CurrentItem(runs[r])) :
          IF attempt = "begin"
          THEN /\ runs' = [runs EXCEPT ![r] =
                      [@ EXCEPT !.pc = "gallery", !.j = 1, !.gallery = <<>>]]
               /\ UNCHANGED <<conversations, storeFailures>>
          ELSE Thrown(r, attempt, attempt # "query_error")
    /\ UNCHANGED <<lifecycleVars, harnessVars, triggerLog, rateLimit, blockedNumbers, campaigns, campaignMessages, now, sendLog>>

\* One turn of the loop of sendGalleryMessage, lines 371-391: the image is
\* downloaded and sent; the catch swallows every error.  gallery keeps the
\* turns of the loop of the latest gallery.
GalleryTurn(run, attempt) ==
    [run EXCEPT !.lastMessageId = IF attempt = "sent" THEN SentId(run.j) ELSE @,
                !.gallery = Append(@, [item |-> CurrentItem(run).id, media |-> run.j,
                                       attempt |-> attempt])]

\* A loop that gives up at the first image that fails.
GalleryEnds_AtFirstFailure(run, attempt) ==
    run.j = CurrentItem(run).media \/ attempt # "sent"

\* The loop condition j < mediaFiles.length fails after this turn.
GalleryEnds(run, attempt) == run.j = CurrentItem(run).media

\* line 393: return lastMessageId || `GALLERY_${Date.now()}`.
GalleryReturns(lastMessageId) ==
    IF lastMessageId # NoMessageId THEN lastMessageId ELSE PlaceholderId

\* One turn of the loop; after the last image the function returns (line
\* 393) and the bookkeeping of the message follows.
GalleryImage(r) ==
    /\ runs[r].pc = "gallery"
    /\ \E attempt \in ({"download_error"} \cup SendOutcomes), incremented \in StoreOutcomes :
          LET turned == GalleryTurn(runs[r], attempt)
              last == GalleryEnds(runs[r], attempt)
          IN /\ ~last => incremented
             /\ IF attempt \in SendOutcomes THEN LogSend(r, attempt) ELSE sendLog' = sendLog
             /\ IF last
                THEN Bookkeeping(r, turned, GalleryReturns(turned.lastMessageId), incremented)
                ELSE /\ runs' = [runs EXCEPT ![r] = [turned EXCEPT !.j = @ + 1]]
                     /\ UNCHANGED <<conversations, storeFailures>>
    /\ UNCHANGED <<lifecycleVars, harnessVars, triggerLog, rateLimit, blockedNumbers, campaigns, campaignMessages, now>>

\* default: the type is not supported, `continue`.
SkipUnsupported(r) ==
    /\ AtSwitch(r)
    /\ CurrentItem(runs[r]).type_code
          \notin {"TEXT", "IMAGE", "AUDIO", "DOCUMENT", "GALLERY"}
    /\ runs' = [runs EXCEPT ![r] = NextItem([@ EXCEPT !.outcomes = Append(@, "skipped")])]
    /\ UNCHANGED <<lifecycleVars, harnessVars, triggerLog, storeVars, envVars, sendLog>>

\* The operation lines 575-584 choose from the result of the dispatch.
\* The policy with a mixed outcome treated as a failure.
FinalOperation_MixedFails(sent, failed, total) ==
    IF sent = total THEN "complete" ELSE "fail"

FinalOperation(sent, failed, total) ==
    IF sent = total THEN "complete"
    ELSE IF failed = total THEN "fail"
    ELSE "complete"

\* lines 575-584: completeConversation or failConversation.
Finalize(r) ==
    /\ runs[r].pc = "finalize"
    /\ \E ok \in StoreOutcomes :
          LET op == FinalOperation(runs[r].sent, runs[r].failed, Len(runs[r].plan))
          IN /\ CountFailure(ok)
             /\ conversations' =
                   IF ~ok THEN conversations
                   ELSE IF op = "complete"
                        THEN completeConversation(conversations, runs[r].convId)
                        ELSE failConversation(conversations, runs[r].convId)
             /\ runs' = [runs EXCEPT ![r] =
                   Ended([@ EXCEPT !.finalOp = op], IF ok THEN "finalized" ELSE "error")]
    /\ UNCHANGED <<lifecycleVars, harnessVars, triggerLog, rateLimit, blockedNumbers, campaigns, campaignMessages, now, sendLog>>

(***************************************************************************)
(* whatsapp.service.js (the exported singleton) and server.js.             *)
(***************************************************************************)
\* The constructor, part_000 lines 327-336; 0 stands for null.
NewService ==
    [client |-> 0, isReady |-> FALSE, isInitializing |-> FALSE,
     initializationPromise |-> 0]

\* server.js lines 17-18, and whether .wwebjs_auth / .wwebjs_cache exist.
NewServer == [initializationTimeout |-> 0, cleanupInProgress |-> FALSE, folders |-> FALSE]

\* The service before any request.
ServiceIdle ==
    /\ service = NewService
    /\ clients = <<>>
    /\ inits = <<>>
    /\ timers = <<>>
    /\ server = NewServer
    /\ tasks = <<>>

\* The whole state of the service and the server, for the operators below;
\* an action applies the synchronous stretch of code between two awaits.
World ==
    [service |-> service, clients |-> clients, inits |-> inits, timers |-> timers,
     server |-> server, tasks |-> tasks]
Becomes(w) ==
    /\ service' = w.service
    /\ clients' = w.clients
    /\ inits' = w.inits
    /\ timers' = w.timers
    /\ server' = w.server
    /\ tasks' = w.tasks

\* new Client(...) and a task record; promise 0 is a promise already resolved.
\* listeners: the handlers registered with on; onceReady: the handler of
\* 'ready', registered with once.
NewClient ==
    [listeners |-> FALSE, onceReady |-> FALSE, destroyed |-> FALSE, connected |-> FALSE]
Task(kind, pc) == [kind |-> kind, pc |-> pc, promise |-> 0, response |-> "none"]

\* setupEventHandlers, lines 424-499: this.client.removeAllListeners() and
\* the handlers of qr, ready, authenticated, auth_failure, disconnected,
\* message, error and loading_screen are registered on this.client.
setupEventHandlers(w) ==
    [w EXCEPT !.clients[w.service.client].listeners = TRUE,
              !.clients[w.service.client].onceReady = TRUE]

\* _doInitialize up to its await of client.initialize(), lines 372-411.
\* LocalAuth keeps the session under ./.wwebjs_auth.
doInitialize(w) ==
    LET created == [w EXCEPT !.service.isInitializing = TRUE,
                             !.service.client = Len(w.clients) + 1,
                             !.clients = Append(@, NewClient),
                             !.server.folders = TRUE]
    IN [setupEventHandlers(created) EXCEPT
           !.inits = Append(@, [client |-> created.service.client, state |-> "pending"])]

\* initialize, lines 338-365, up to its await; called by task t, which
\* keeps the promise it was given.
initialize(w, t) ==
    IF w.service.initializationPromise # 0
    THEN [w EXCEPT !.tasks[t].promise = w.service.initializationPromise]
    ELSE IF w.service.client # 0 /\ w.service.isReady
    THEN [w EXCEPT !.tasks[t].promise = 0]
    ELSE LET begun == doInitialize(w)
         IN [begun EXCEPT !.service.initializationPromise = Len(begun.inits),
                          !.tasks[t].promise = Len(begun.inits)]

\* destroy, lines 609-627, up to its await of client.destroy(); called by
\* task t, which goes on at `next` when there is no client.
destroy(w, t, next) ==
    IF w.service.client # 0
    THEN [w EXCEPT !.clients[w.service.client].listeners = FALSE,
                   !.clients[w.service.client].onceReady = FALSE,
                   !.clients[w.service.client].destroyed = TRUE,
                   !.clients[w.service.client].connected = FALSE,
                   !.tasks[t].pc = "destroying"]
    ELSE [w EXCEPT !.tasks[t].pc = next]

\* destroy after its await, lines 615-620.
destroyed(w) ==
    [w EXCEPT !.service = NewService]

\* if (initializationTimeout) { clearTimeout(...); initializationTimeout = null }
clearInitializationTimeout(w) ==
    LET handle == w.server.initializationTimeout
    IN IF handle = 0 THEN w
       ELSE [w EXCEPT !.timers[handle].state =
                          IF @ = "armed" THEN "cleared" ELSE @,
                      !.server.initializationTimeout = 0]

\* getStatus / isClientReady.
isClientReady(w) == w.service.isReady /\ w.service.client # 0

\* handleWhatsAppError, server.js lines 117-144, up to its first await; t is
\* the task that runs it.
handleWhatsAppError(w, t) ==
    LET cleared == clearInitializationTimeout(w)
    IN IF isClientReady(cleared) \/ cleared.service.isInitializing
       THEN destroy(cleared, t, "waiting")
       ELSE [cleared EXCEPT !.tasks[t].pc = "waiting"]

\* cleanupSessionFolders, server.js lines 37-93, up to its first wait: it
\* returns at once when a cleanup is under way or no folder exists.
cleanupSessionFolders(w, t, next) ==
    IF w.server.cleanupInProgress THEN [w EXCEPT !.tasks[t].pc = next]
    ELSE IF ~w.server.folders THEN [w EXCEPT !.tasks[t].pc = next]
    ELSE [w EXCEPT !.server.cleanupInProgress = TRUE, !.tasks[t].pc = "cleaning"]

\* The .then of server.js lines 200-206.
initialized(w, t) ==
    [clearInitializationTimeout(w) EXCEPT !.tasks[t].pc = "done"]

\* server.js lines 193-210: the timer is armed and initialize is called; a
\* promise that is already resolved runs the .then at once.
armAndInitialize(w, t) ==
    LET armed == [w EXCEPT !.timers = Append(@, [state |-> "armed", promise |-> 0,
                                                 afterSuccess |-> FALSE]),
                           !.server.initializationTimeout = Len(w.timers) + 1,
                           !.tasks[t].response = "initializing"]
        called == initialize(armed, t)
        guarded == [called EXCEPT !.timers[Len(armed.timers)].promise =
                                      called.tasks[t].promise]
    IN IF guarded.tasks[t].promise = 0
       THEN initialized(guarded, t)
       ELSE [guarded EXCEPT !.tasks[t].pc = "awaiting"]

\* verifySessionHealth, server.js lines 99-111, called at line 190.
verifySessionHealth(w, t) ==
    IF w.server.folders /\ ~w.service.isReady /\ ~w.service.isInitializing
    THEN cleanupSessionFolders(w, t, "arm")
    ELSE [w EXCEPT !.tasks[t].pc = "arm"]

\* POST /start-whatsapp, server.js lines 152-228, up to its first wait.
startWhatsapp(w, t) ==
    IF w.service.isReady
    THEN [w EXCEPT !.tasks[t].pc = "done", !.tasks[t].response = "connected"]
    ELSE IF w.service.isInitializing
    THEN [w EXCEPT !.tasks[t].pc = "done", !.tasks[t].response = "initializing"]
    ELSE LET verified == verifySessionHealth(w, t)
         IN IF verified.tasks[t].pc = "arm" THEN armAndInitialize(verified, t)
            ELSE verified

\* POST /stop-whatsapp, server.js lines 289-325, up to its await.
stopWhatsapp(w, t) ==
    IF ~w.service.isReady /\ ~w.service.isInitializing
    THEN [w EXCEPT !.tasks[t].pc = "done", !.tasks[t].response = "disconnected"]
    ELSE destroy(clearInitializationTimeout(w), t, "done")

\* The callbacks of the tasks that wait for promise p, one after the other:
\* .then when it resolved, .catch when it rejected.
RECURSIVE settleWaiters(_, _, _, _)
settleWaiters(w, p, state, t) ==
    IF t > Len(w.tasks) THEN w
    ELSE IF w.tasks[t].pc = "awaiting" /\ w.tasks[t].promise = p
    THEN settleWaiters(IF state = "resolved" THEN initialized(w, t)
                       ELSE handleWhatsAppError([w EXCEPT !.tasks[t].kind = "catch"], t),
                       p, state, t + 1)
    ELSE settleWaiters(w, p, state, t + 1)

\* client.initialize() of _doInitialize p settles: the catch of lines
\* 414-418, the finally of line 363, then the callbacks of server.js.
settle(w, p, state) ==
    LET caught == IF state = "rejected"
                  THEN [w EXCEPT !.service.isInitializing = FALSE] ELSE w
        finished == [caught EXCEPT !.inits[p].state = state,
                                   !.service.initializationPromise = 0]
    IN settleWaiters(finished, p, state, 1)

\* The requests of a kind so far; a start request whose initialize was
\* rejected goes on as the task of its .catch.
Count(kinds) == Cardinality({t \in DOMAIN tasks : tasks[t].kind \in kinds})
OtherVars == <<harnessVars, triggerLog, storeVars, envVars, runVars>>

\* A POST /start-whatsapp request arrives.
StartRequest ==
    /\ Count({"start", "catch"}) < MaxStarts
    /\ Len(clients) < MaxClients
    /\ Becomes(startWhatsapp([World EXCEPT !.tasks = Append(@, Task("start", "new"))],
                             Len(tasks) + 1))
    /\ UNCHANGED OtherVars

\* A POST /stop-whatsapp request arrives.
StopRequest ==
    /\ Count({"stop"}) < MaxStops
    /\ Becomes(stopWhatsapp([World EXCEPT !.tasks = Append(@, Task("stop", "new"))],
                            Len(tasks) + 1))
    /\ UNCHANGED OtherVars

\* The folders have been removed (server.js lines 59-70, 91); a start
\* request goes on at line 193, the error handler is finished.
CleanupDone(t) ==
    /\ tasks[t].pc = "cleaning"
    /\ LET cleaned == [World EXCEPT !.server.folders = FALSE,
                                    !.server.cleanupInProgress = FALSE]
       IN IF tasks[t].kind = "start"
          THEN /\ Len(clients) < MaxClients
               /\ Becomes(armAndInitialize(cleaned, t))
          ELSE Becomes([cleaned EXCEPT !.tasks[t].pc = "done"])
    /\ UNCHANGED OtherVars

\* client.initialize() resolves or rejects; it rejects on a client that was
\* destroyed meanwhile.
InitSettles(p) ==
    /\ inits[p].state = "pending"
    /\ \E state \in {"resolved", "rejected"} :
          /\ clients[inits[p].client].destroyed => state = "rejected"
          /\ Becomes(settle(World, p, state))
    /\ UNCHANGED OtherVars

\* A client is initialized when its client.initialize() resolved.
Initialized(c) == \E p \in DOMAIN inits : inits[p].client = c /\ inits[p].state = "resolved"

\* 'ready', lines 440-457 (registered with once).
Ready(c) ==
    /\ clients[c].onceReady /\ ~clients[c].destroyed
    /\ Initialized(c)
    /\ clients' = [clients EXCEPT ![c].connected = TRUE, ![c].onceReady = FALSE]
    /\ service' = IF service.isReady THEN service
                  ELSE [service EXCEPT !.isReady = TRUE, !.isInitializing = FALSE]
    /\ UNCHANGED <<inits, timers, server, tasks, OtherVars>>

\* 'disconnected', lines 472-485.
Disconnected(c) ==
    /\ clients[c].listeners /\ clients[c].connected
    /\ clients' = [clients EXCEPT ![c].connected = FALSE]
    /\ service' = [service EXCEPT !.isReady = FALSE]
    /\ UNCHANGED <<inits, timers, server, tasks, OtherVars>>

\* The initialization a timer guards has succeeded.
Succeeded(timer) == timer.promise = 0 \/ inits[timer.promise].state = "resolved"

\* The timer of server.js lines 193-196 fires: handleWhatsAppError.
\* afterSuccess keeps whether the guarded initialization had succeeded.
TimerFires(k) ==
    /\ timers[k].state = "armed"
    /\ Becomes(handleWhatsAppError(
                  [World EXCEPT !.timers[k].state = "fired",
                                !.timers[k].afterSuccess = Succeeded(timers[k]),
                                !.tasks = Append(@, Task("timeout", "new"))],
                  Len(tasks) + 1))
    /\ UNCHANGED OtherVars

\* client.destroy() has returned, lines 615-620.
DestroyEnd(t) ==
    /\ tasks[t].pc = "destroying"
    /\ Becomes([destroyed(World) EXCEPT
                  !.tasks[t].pc = IF tasks[t].kind = "stop" THEN "done" ELSE "waiting",
                  !.tasks[t].response = IF tasks[t].kind = "stop" THEN "disconnected" ELSE @])
    /\ UNCHANGED OtherVars

\* handleWhatsAppError after its wait of 3 s, lines 134-137.
ErrorCleanup(t) ==
    /\ tasks[t].pc = "waiting"
    /\ Becomes(cleanupSessionFolders(World, t, "done"))
    /\ UNCHANGED OtherVars


(***************************************************************************)
(* Stored data of the initial states.                                      *)
(***************************************************************************)
\* The campaigns table of the orchestration runs: message "a" triggers
\* campaign 1, message "!" none.
OrchCampaigns ==
    << CampaignRow(1, 2, TRUE, RuleSet(<<>>, <<>>, <<<<"A">>>>, <<>>)),
       CampaignRow(2, 1, TRUE, RuleSet(<<<<"a">>>>, <<>>, <<<<"b">>>>, <<>>)) >>

\* The user_rate_limit table when the first message arrives: u1 has no row,
\* u2 a block that has expired, u3 has reached the hour limit half an hour
\* ago, and u4 (in blocked_numbers) has an ordinary row.
RecentRow(hourCount, dayCount) ==
    [exists |-> TRUE, is_blocked |-> FALSE, blocked_reason |-> NoReason,
     blocked_until |-> NULL,
     trigger_count_hour |-> hourCount, trigger_count_day |-> dayCount,
     trigger_count_total |-> dayCount, last_trigger_at |-> StartTime - 1]
\* The updateRateLimit calls that produced the rows of InitialRateLimit.
InitialTriggerLog ==
    [u \in Users |->
        CASE u = "u1" -> <<>>
          [] u = "u3" -> [k \in 1..RateLimitHour |-> StartTime - 1]
          [] OTHER -> <<StartTime - 1>>]
InitialRateLimit ==
    [u \in Users |->
        CASE u = "u1" -> NoRow
          [] u = "u2" -> [RecentRow(1, 1) EXCEPT !.is_blocked = TRUE, !.blocked_reason = "spam",
                                                 !.blocked_until = StartTime - 1]
          [] u = "u3" -> RecentRow(RateLimitHour, RateLimitHour)
          [] OTHER -> RecentRow(1, 1)]

\* Stored plans: the rows of the messages table of one campaign, in storage
\* order, with their sort_order.
ItemKinds ==
    { <<"TEXT", 1, 0>>, <<"IMAGE", 0, 1>>, <<"IMAGE", 0, 0>>,
      <<"AUDIO", 0, 1>>, <<"DOCUMENT", 0, 1>>, <<"GALLERY", 0, MaxMedia>>,
      <<"GALLERY", 0, 0>>, <<"VIDEO", 0, 0>> }
\* The rows stored in delivery order, and stored in the opposite order.
SortOrders(n) == {[k \in 1..n |-> k], [k \in 1..n |-> n + 1 - k]}
\* A stored plan holds at most one gallery that has media rows.
Galleries(kinds) == {k \in DOMAIN kinds : kinds[k][1] = "GALLERY" /\ kinds[k][3] > 0}
StoredPlans(n) ==
    {[k \in 1..n |-> MessageRow(k, kinds[k][1], order[k], kinds[k][2], kinds[k][3])] :
        kinds \in {c \in [1..n -> ItemKinds] : \A a, b \in Galleries(c) : a = b},
        order \in SortOrders(n)}
DispatchPlans == UNION {StoredPlans(n) : n \in 0..MaxPlanLen}

\* The plans of the campaigns of the orchestration runs.
OrchPlans ==
    { <<>>,
      <<MessageRow(1, "TEXT", 1, 1, 0)>>,
      <<MessageRow(1, "IMAGE", 1, 0, 1)>>,
      <<MessageRow(1, "GALLERY", 1, 0, 1)>>,
      <<MessageRow(1, "VIDEO", 1, 0, 0)>> }

(***************************************************************************)
(* Specifications.                                                         *)
(***************************************************************************)
OrchestratorIdle ==
    /\ conversations = <<>>
    /\ rateLimit = InitialRateLimit
    /\ blockedNumbers = {"u4"}
    /\ campaigns = OrchCampaigns
    /\ campaignMessages = <<>>
    /\ now = StartTime
    /\ storeFailures = 0
    /\ runs = <<>>
    /\ sendLog = <<>>
    /\ triggerLog = InitialTriggerLog

HarnessIdle ==
    /\ fMsg = <<>>
    /\ fRules = NullDocument
    /\ fCampaigns = <<>>
    /\ fResult = NoMatch
    /\ fPhase = "idle"
    /\ trackerOps = 0

\* The service with MaxRuns message events to come.
Init ==
    /\ ServiceIdle
    /\ HarnessIdle
    /\ conversations = <<>>
    /\ rateLimit = InitialRateLimit
    /\ blockedNumbers = {"u4"}
    /\ campaigns = OrchCampaigns
    /\ campaignMessages \in OrchPlans
    /\ now = StartTime
    /\ storeFailures = 0
    /\ runs = [r \in 1..MaxRuns |-> IdleRun]
    /\ sendLog = [r \in 1..MaxRuns |-> <<>>]
    /\ triggerLog = InitialTriggerLog

Next ==
    \/ \E r \in Runs : Arrive(r)
    \/ \E r \in Runs : GetActive(r)
    \/ \E r \in Runs : CheckRate(r)
    \/ \E r \in Runs : Detect(r)
    \/ \E r \in Runs : UpdateRate(r)
    \/ \E r \in Runs : Create(r)
    \/ \E r \in Runs : GetPlan(r)
    \/ \E r \in Runs : FailEmpty(r)
    \/ \E r \in Runs : Sleep(r)
    \/ \E r \in Runs : SendText(r)
    \/ \E r \in Runs : SendMedia(r)
    \/ \E r \in Runs : StartGallery(r)
    \/ \E r \in Runs : GalleryImage(r)
    \/ \E r \in Runs : SkipUnsupported(r)
    \/ \E r \in Runs : Finalize(r)

Spec == Init /\ [][Next]_vars

\* The service when a sender who triggered RateLimitHour - 1 campaigns half
\* an hour ago writes again: MaxRuns message events to come.
FrequentSender == "u1"
InitAdmission ==
    /\ ServiceIdle
    /\ HarnessIdle
    /\ conversations = <<>>
    /\ rateLimit = [InitialRateLimit EXCEPT
                       ![FrequentSender] = RecentRow(RateLimitHour - 1, RateLimitHour - 1)]
    /\ blockedNumbers = {"u4"}
    /\ campaigns = OrchCampaigns
    /\ campaignMessages \in OrchPlans
    /\ now = StartTime
    /\ storeFailures = 0
    /\ runs = [r \in 1..MaxRuns |-> IdleRun]
    /\ sendLog = [r \in 1..MaxRuns |-> <<>>]
    /\ triggerLog = [InitialTriggerLog EXCEPT
                        ![FrequentSender] = [k \in 1..(RateLimitHour - 1) |-> StartTime - 1]]

SpecAdmission == InitAdmission /\ [][Next]_vars

\* One message event, and a campaign that may have any stored plan.
InitDispatch ==
    /\ ServiceIdle
    /\ HarnessIdle
    /\ conversations = <<>>
    /\ rateLimit = InitialRateLimit
    /\ blockedNumbers = Users \ {"u1"}
    /\ campaigns = OrchCampaigns
    /\ campaignMessages \in DispatchPlans
    /\ now = StartTime
    /\ storeFailures = 0
    /\ runs = [r \in {1} |-> IdleRun]
    /\ sendLog = [r \in {1} |-> <<>>]
    /\ triggerLog = InitialTriggerLog

SpecDispatch == InitDispatch /\ [][Next]_vars

(***************************************************************************)
(* Function-level specifications: the inputs are drawn by the initial      *)
(* state and one call is made.                                             *)
(***************************************************************************)
CallMatchKeywords ==
    /\ fPhase = "input"
    /\ fResult' = matchKeywords(fMsg, fRules)
    /\ fPhase' = "matchKeywords"
    /\ UNCHANGED <<lifecycleVars, fMsg, fRules, fCampaigns, trackerOps, triggerLog, storeVars, envVars, runVars>>

InitMatch ==
    /\ ServiceIdle
    /\ fMsg \in Messages
    /\ fRules \in RuleSets \cup {NullDocument}
    /\ fCampaigns = <<>>
    /\ fResult = NoMatch
    /\ fPhase = "input"
    /\ trackerOps = 0
    /\ OrchestratorIdle

SpecMatch == InitMatch /\ [][CallMatchKeywords]_vars

CallDetectCampaign ==
    /\ fPhase = "input"
    /\ fResult' = detectCampaign(fMsg, fCampaigns)
    /\ fPhase' = "detectCampaign"
    /\ UNCHANGED <<lifecycleVars, fMsg, fRules, fCampaigns, trackerOps, triggerLog, storeVars, envVars, runVars>>

InitCampaign ==
    /\ ServiceIdle
    /\ fMsg \in Messages
    /\ fRules = NullDocument
    /\ fCampaigns \in CampaignTables
    /\ fResult = NoCampaign
    /\ fPhase = "input"
    /\ trackerOps = 0
    /\ OrchestratorIdle

SpecCampaign == InitCampaign /\ [][CallDetectCampaign]_vars

\* detectCampaign over tables that hold malformed documents: text that does
\* not parse, the document null, a document of the wrong shape, a rule set
\* with an entry of the wrong shape; and one well-formed rule set.
MalformedDocuments ==
    { InvalidDocument, NullDocument, ScalarDocument, BadEntryDocument,
      RuleSet(<<>>, <<>>, <<<<"A">>>>, <<>>) }
MalformedTables ==
    UNION {{[i \in 1..n |-> CampaignRow(i, row[i][1], TRUE, row[i][2])] :
                row \in [1..n -> Priorities \X MalformedDocuments]}
           : n \in 0..MaxCampaigns}
MalformedMessages == {<<>>, <<" ">>, <<"a">>, <<"b">>}

InitMalformed ==
    /\ ServiceIdle
    /\ fMsg \in MalformedMessages
    /\ fRules = NullDocument
    /\ fCampaigns \in MalformedTables
    /\ fResult = NoCampaign
    /\ fPhase = "input"
    /\ trackerOps = 0
    /\ OrchestratorIdle

SpecMalformed == InitMalformed /\ [][CallDetectCampaign]_vars

\* containsKeyword as matchKeywords calls it (lines 83 and 100): on the
\* normalized message and the normalized phrase, here the only keyword of
\* the rule set.
CallContainsKeyword ==
    /\ fPhase = "input"
    /\ fResult' = containsKeyword(normalizeText(fMsg), normalizeText(fRules.keywords[1]))
    /\ fPhase' = "containsKeyword"
    /\ UNCHANGED <<lifecycleVars, fMsg, fRules, fCampaigns, trackerOps, triggerLog, storeVars, envVars, runVars>>

\* Keyword phrases: those of the rule sets, a phrase repeating a word and a
\* two-letter word.
ContainsPhrases == Phrases \cup {<<"a", " ", "a">>, <<"a", "b">>, <<"a", " ", "b">>}

InitContains ==
    /\ ServiceIdle
    /\ fMsg \in Messages
    /\ fRules \in {RuleSet(<<>>, <<>>, <<phrase>>, <<>>) : phrase \in ContainsPhrases}
    /\ fCampaigns = <<>>
    /\ fResult = NoMatch
    /\ fPhase = "input"
    /\ trackerOps = 0
    /\ OrchestratorIdle

NextContains ==
    \/ CallContainsKeyword
    \/ CallMatchKeywords

SpecContains == InitContains /\ [][NextContains]_vars

\* normalizeText on its own.
NormalizerChars == {"a", "A", " ", "TAB", "!", ",", "A_ACUTE", "a_acute", "U0301"}
NormalizerInputs == UNION {[1..n -> NormalizerChars] : n \in 0..MaxMsgLen}

CallNormalizeText ==
    /\ fPhase = "input"
    /\ fResult' = normalizeText(fMsg)
    /\ fPhase' = "normalizeText"
    /\ UNCHANGED <<lifecycleVars, fMsg, fRules, fCampaigns, trackerOps, triggerLog, storeVars, envVars, runVars>>

InitNormalize ==
    /\ ServiceIdle
    /\ fMsg \in NormalizerInputs
    /\ fRules = NullDocument
    /\ fCampaigns = <<>>
    /\ fResult = <<>>
    /\ fPhase = "input"
    /\ trackerOps = 0
    /\ OrchestratorIdle

SpecNormalize == InitNormalize /\ [][CallNormalizeText]_vars

(***************************************************************************)
(* replaceVariables as the senders call it: on the content of a message    *)
(* and {nombre: userName, telefono: userPhone} (whatsapp.service.js line   *)
(* 566), where userName is the push name the sender chose.                 *)
(***************************************************************************)
TemplateSymbols == {"x", "{nombre}", "{NOMBRE}", "{telefono}", "{otro}"}
Templates == UNION {[1..n -> TemplateSymbols] : n \in 0..MaxMsgLen}
UserNames == {<<"J">>, <<"{telefono}">>, <<"J", "{otro}">>}
VariableLists ==
    {<<[key |-> "nombre", value |-> userName], [key |-> "telefono", value |-> <<"9">>]>> :
        userName \in UserNames}

CallReplaceVariables ==
    /\ fPhase = "input"
    /\ fResult' = replaceVariables(fMsg, fRules)
    /\ fPhase' = "replaceVariables"
    /\ UNCHANGED <<lifecycleVars, fMsg, fRules, fCampaigns, trackerOps, triggerLog, storeVars, envVars, runVars>>

InitReplace ==
    /\ ServiceIdle
    /\ fMsg \in Templates
    /\ fRules \in VariableLists
    /\ fCampaigns = <<>>
    /\ fResult = <<>>
    /\ fPhase = "input"
    /\ trackerOps = 0
    /\ OrchestratorIdle

SpecReplace == InitReplace /\ [][CallReplaceVariables]_vars

(***************************************************************************)
(* The dispatcher on its own: sendSequentialMessages is exported and is    *)
(* called with a conversation that exists and a list of messages in the    *)
(* order the caller lists them.                                            *)
(***************************************************************************)
SequentialRun(messages) ==
    LET run == [IdleRun EXCEPT !.user = "u1", !.text = <<"a">>, !.campaignId = 1,
                               !.convId = 1, !.plan = messages]
    IN IF messages = <<>>
       THEN [run EXCEPT !.pc = "finalize", !.result = "returned"]
       ELSE [run EXCEPT !.pc = "item", !.i = 1]

InitSequential ==
    /\ ServiceIdle
    /\ HarnessIdle
    /\ conversations = createConversation(<<>>, "u1", 1)
    /\ rateLimit = [InitialRateLimit EXCEPT !["u1"] = updateRateLimit(NoRow, StartTime)]
    /\ triggerLog = [InitialTriggerLog EXCEPT !["u1"] = <<StartTime>>]
    /\ blockedNumbers = {"u4"}
    /\ campaigns = OrchCampaigns
    /\ campaignMessages = <<>>
    /\ now = StartTime
    /\ storeFailures = 0
    /\ \E messages \in DispatchPlans : runs = [r \in {1} |-> SequentialRun(messages)]
    /\ sendLog = [r \in {1} |-> <<>>]

NextSequential ==
    \/ \E r \in Runs : Sleep(r)
    \/ \E r \in Runs : SendText(r)
    \/ \E r \in Runs : SendMedia(r)
    \/ \E r \in Runs : StartGallery(r)
    \/ \E r \in Runs : GalleryImage(r)
    \/ \E r \in Runs : SkipUnsupported(r)

SpecSequential == InitSequential /\ [][NextSequential]_vars

(***************************************************************************)
(* The service and the server on their own: start and stop requests, the   *)
(* events of the clients and the timers, in any order.                     *)
(***************************************************************************)
\* The server from its start, with or without a session saved on disk.
InitLifecycle ==
    /\ HarnessIdle
    /\ OrchestratorIdle
    /\ service = NewService
    /\ clients = <<>>
    /\ inits = <<>>
    /\ timers = <<>>
    /\ \E saved \in BOOLEAN : server = [NewServer EXCEPT !.folders = saved]
    /\ tasks = <<>>

NextLifecycle ==
    \/ StartRequest
    \/ StopRequest
    \/ \E t \in DOMAIN tasks : CleanupDone(t)
    \/ \E p \in DOMAIN inits : InitSettles(p)
    \/ \E c \in DOMAIN clients : Ready(c)
    \/ \E c \in DOMAIN clients : Disconnected(c)
    \/ \E k \in DOMAIN timers : TimerFires(k)
    \/ \E t \in DOMAIN tasks : DestroyEnd(t)
    \/ \E t \in DOMAIN tasks : ErrorCleanup(t)

SpecLifecycle == InitLifecycle /\ [][NextLifecycle]_vars

(***************************************************************************)
(* The rate limiter on its own: any caller applies the exported operations *)
(* of ratelimit.service.js to one sender while time passes.                *)
(***************************************************************************)
RateUser == "u1"

\* The row a sequence of updateRateLimit calls at the given times leaves.
RECURSIVE Replay(_)
Replay(log) ==
    IF log = <<>> THEN NoRow
    ELSE updateRateLimit(Replay(SubSeq(log, 1, Len(log) - 1)), log[Len(log)])

\* Trigger histories of the sender before the first step, each trigger
\* admitted by the limits: none; two an hour ago and now; RateLimitDay
\* within the day of which the last two lie in the trailing hour; one less
\* than RateLimitDay within the day.
InitialLogs ==
    { <<>>,
      <<StartTime - HourTicks, StartTime - 1>>,
      [k \in 1..RateLimitDay |->
          IF k <= RateLimitHour THEN StartTime - 40
          ELSE IF k <= 2 * RateLimitHour THEN StartTime - 30
          ELSE StartTime - 1],
      [k \in 1..(RateLimitDay - 1) |->
          IF k <= RateLimitHour THEN StartTime - 40
          ELSE IF k <= 2 * RateLimitHour THEN StartTime - 30
          ELSE StartTime - 1] }

\* Time passes between two operations; the operations happen at a few ticks
\* after the start, a day less an hour after it, or a day after it.
ClockValues ==
    {StartTime + k : k \in 0..MaxTicks}
        \cup {StartTime + DayTicks - HourTicks, StartTime + DayTicks}
Elapse ==
    /\ \E t \in ClockValues :
          /\ t > now
          /\ now' = t
    /\ UNCHANGED <<lifecycleVars, harnessVars, triggerLog, storeVars, storeFailures, runVars>>

RateApplied(result, row, log) ==
    /\ trackerOps < MaxRateOps
    /\ trackerOps' = trackerOps + 1
    /\ fResult' = result
    /\ fPhase' = result.fn
    /\ rateLimit' = [rateLimit EXCEPT ![RateUser] = row]
    /\ triggerLog' = [triggerLog EXCEPT ![RateUser] = log]
    /\ UNCHANGED <<lifecycleVars, fMsg, fRules, fCampaigns, conversations, blockedNumbers, campaigns,
                   campaignMessages, envVars, runVars>>

\* What the harness keeps of a call: its arguments, the row before it and
\* the clock at the call.
Call(fn, argument) ==
    [fn |-> fn, argument |-> argument, before |-> rateLimit[RateUser], at |-> now,
     permanentlyBlocked |-> RateUser \in blockedNumbers,
     allowed |-> TRUE, reason |-> "", threw |-> FALSE]

RateCheck ==
    \E failAt \in StoreAccesses :
        LET verdict == checkRateLimitFailing(failAt, RateUser \in blockedNumbers,
                                             rateLimit[RateUser], now)
        IN RateApplied([Call("checkRateLimit", failAt) EXCEPT
                            !.allowed = verdict.allowed, !.reason = verdict.reason],
                       verdict.row, triggerLog[RateUser])

\* updateRateLimit rethrows a store error (lines 147-150).
RateUpdate ==
    \E ok \in BOOLEAN :
        IF ok
        THEN RateApplied(Call("updateRateLimit", "none"),
                         updateRateLimit(rateLimit[RateUser], now),
                         Append(triggerLog[RateUser], now))
        ELSE RateApplied([Call("updateRateLimit", "user_rate_limit") EXCEPT !.threw = TRUE],
                         rateLimit[RateUser], triggerLog[RateUser])

BlockHours == {NULL, 0, 1}
BlockReasons == {"spam", "abuse"}
RateBlock ==
    \E reason \in BlockReasons, hoursBlocked \in BlockHours :
        RateApplied(Call("blockUser", [reason |-> reason, hoursBlocked |-> hoursBlocked]),
                    blockUser(rateLimit[RateUser], reason, hoursBlocked, now),
                    triggerLog[RateUser])

InitRate ==
    /\ ServiceIdle
    /\ HarnessIdle
    /\ conversations = <<>>
    /\ \E log \in InitialLogs :
          /\ rateLimit = [InitialRateLimit EXCEPT ![RateUser] = Replay(log)]
          /\ triggerLog = [InitialTriggerLog EXCEPT ![RateUser] = log]
    /\ blockedNumbers \in {{"u4"}, {RateUser, "u4"}}
    /\ campaigns = OrchCampaigns
    /\ campaignMessages = <<>>
    /\ now = StartTime
    /\ storeFailures = 0
    /\ runs = <<>>
    /\ sendLog = <<>>

NextRate ==
    \/ RateCheck
    \/ RateUpdate
    \/ RateBlock
    \/ Elapse

SpecRate == InitRate /\ [][NextRate]_vars

(***************************************************************************)
(* The conversation tracker on its own: any caller applies the exported    *)
(* operations of conversation.service.js to any conversation.              *)
(***************************************************************************)
Applied(table) ==
    /\ trackerOps < MaxTrackerOps
    /\ trackerOps' = trackerOps + 1
    /\ conversations' = table
    /\ UNCHANGED <<lifecycleVars, fVars, triggerLog, rateLimit, blockedNumbers, campaigns, campaignMessages, envVars, runVars>>

TrackerCreate == \E u \in {"u1", "u2"} : Applied(createConversation(conversations, u, 1))

TrackerIncrement ==
    \E id \in 1..Len(conversations) : Applied(incrementMessagesSent(conversations, id))

TrackerComplete ==
    \E id \in 1..Len(conversations) : Applied(completeConversation(conversations, id))

TrackerFail ==
    \E id \in 1..Len(conversations) : Applied(failConversation(conversations, id))

TrackerUpdateStatus ==
    \E id \in 1..Len(conversations), status \in validStatuses \cup {"PAUSED"} :
        Applied(updateConversationStatus(conversations, id, status))

InitTracker == HarnessIdle /\ OrchestratorIdle /\ ServiceIdle

NextTracker ==
    \/ TrackerCreate
    \/ TrackerIncrement
    \/ TrackerComplete
    \/ TrackerFail
    \/ TrackerUpdateStatus

SpecTracker == InitTracker /\ [][NextTracker]_vars

(***************************************************************************)
(* Properties.                                                             *)
(***************************************************************************)
ConversationOf(r) == conversations[runs[r].convId]
CreatedConversation(r) == runs[r].convId # 0

\* C1: in every reachable state every sender has at most one conversation
\* whose status is INITIATED or IN_PROGRESS.
C1_AtMostOneActivePerSender ==
    \A u \in Users : Cardinality(ActiveIds(conversations, u)) <= 1

\* C2: once a run has ended, the conversation it created is in a terminal
\* status (COMPLETED, FAILED or CANCELLED).
C2_EndedRunLeavesTerminal ==
    \A r \in Runs :
        (runs[r].pc = "done" /\ CreatedConversation(r))
            => ConversationOf(r).status \in TerminalStatuses

\* C3: when the dispatch of a run aborted with a transport-fatal error, the
\* conversation of the run is FAILED once the run has ended.
C3_FatalAbortMarksFailed ==
    \A r \in Runs :
        (runs[r].pc = "done" /\ runs[r].end = "fatal")
            => ConversationOf(r).status = "FAILED"

\* C4: a send that fails with a transport-fatal error is the last send of its
\* dispatch, and the dispatch raises the error to its caller.
C4_FatalSendStopsDispatch ==
    \A r \in Runs :
        \A k \in 1..Len(sendLog[r]) :
            sendLog[r][k].outcome = "fatal"
                => /\ k = Len(sendLog[r])
                   /\ runs[r].result = "threw"

\* C5: no tracker operation changes the status of a conversation that is
\* COMPLETED, FAILED or CANCELLED, and incrementMessagesSent changes a status
\* only from INITIATED to IN_PROGRESS.
C5_TerminalStatusIsFinal ==
    [][\A id \in 1..Len(conversations) :
          /\ conversations[id].status \in TerminalStatuses
                => conversations'[id].status = conversations[id].status
          /\ (/\ conversations' = incrementMessagesSent(conversations, id)
              /\ conversations'[id].status # conversations[id].status)
                => /\ conversations[id].status = "INITIATED"
                   /\ conversations'[id].status = "IN_PROGRESS"]_vars

\* C6: after the dispatch of a run returned normally, the run finalizes with
\* completeConversation when every item was sent, with failConversation when
\* every item failed and with completeConversation otherwise, and when that
\* write succeeded the conversation is COMPLETED, FAILED, COMPLETED.
C6_Status(sent, failed, total) ==
    IF sent = total THEN "COMPLETED"
    ELSE IF failed = total THEN "FAILED"
    ELSE "COMPLETED"
C6_OutcomePolicy ==
    \A r \in Runs :
        (runs[r].pc = "done" /\ runs[r].result = "returned")
            => LET total == Len(runs[r].plan)
                   status == C6_Status(runs[r].sent, runs[r].failed, total)
               IN /\ total > 0
                  /\ runs[r].finalOp = (IF status = "FAILED" THEN "fail" ELSE "complete")
                  /\ runs[r].end = "finalized" => ConversationOf(r).status = status
C6_MixedWitness ==
    \E r \in Runs :
        /\ runs[r].pc = "done" /\ runs[r].end = "finalized"
        /\ runs[r].sent = 1 /\ runs[r].failed = 1
        /\ ConversationOf(r).status = "COMPLETED"

\* ---- the selector and the matcher ----
Called(function) == fPhase = function

\* A rule-set document whose excluded_words veto the message.
Vetoes(doc, message) ==
    /\ doc.kind = "ruleset"
    /\ \E i \in 1..Len(doc.excluded_words) :
           Includes(normalizeText(message), normalizeText(doc.excluded_words[i]))

\* The entries of a list of phrases the message contains.
PhraseHits(phrases, message) ==
    {i \in 1..Len(phrases) :
        containsKeyword(normalizeText(message), normalizeText(phrases[i]))}

\* The groups of a synonym map that hit the message.
SynonymHits(groups, message) ==
    {g \in 1..Len(groups) :
        \/ Includes(normalizeText(message), normalizeText(groups[g].main))
        \/ \E i \in 1..Len(groups[g].list) :
               Includes(normalizeText(message), normalizeText(groups[g].list[i]))}

Least(S) == CHOOSE i \in S : \A k \in S : i <= k

\* The active campaigns of the table whose rule set matches the message.
MatchingCampaigns(table, message) ==
    {i \in 1..Len(table) :
        /\ table[i].is_active
        /\ table[i].trigger_keywords.kind # "invalid"
        /\ matchKeywords(message, table[i].trigger_keywords) # NoMatch}

IsBlank(message) == \A i \in 1..Len(message) : message[i] \in Whitespace

\* C7: for a message that is not blank, detectCampaign returns none when no
\* active campaign matches, and otherwise the matching active campaign of the
\* highest priority: never a campaign below a matching active campaign of
\* strictly higher priority.
C7_HighestPriorityMatchWins ==
    (Called("detectCampaign") /\ ~IsBlank(fMsg))
        => LET matching == MatchingCampaigns(fCampaigns, fMsg)
           IN IF matching = {} THEN fResult = NoCampaign
              ELSE /\ fResult.campaignId \in matching
                   /\ fResult.priority = fCampaigns[fResult.campaignId].priority
                   /\ \A k \in matching : fCampaigns[k].priority <= fResult.priority
C7_Witness ==
    /\ Called("detectCampaign")
    /\ Len(fCampaigns) = 2
    /\ MatchingCampaigns(fCampaigns, fMsg) = {1, 2}
    /\ fCampaigns[1].priority < fCampaigns[2].priority
    /\ fResult.campaignId = 2

\* C8: if an excluded word, normalized, is a substring of the normalized
\* message, matchKeywords returns none, whatever the other fields hold.
C8_ExcludedWordVetoes ==
    (Called("matchKeywords") /\ Vetoes(fRules, fMsg)) => fResult = NoMatch
C8_Witness ==
    /\ Called("matchKeywords")
    /\ Vetoes(fRules, fMsg)
    /\ fMsg # <<>>
    /\ PhraseHits(fRules.exact_matches, fMsg) \cup PhraseHits(fRules.keywords, fMsg) # {}
    /\ Len(normalizeText(fRules.excluded_words[1])) > 0
    /\ fResult = NoMatch

\* C9: if the message contains an excluded word of the rule set of some
\* active campaign, detectCampaign selects no campaign at all.
C9_VetoOverridesEveryCampaign ==
    (/\ Called("detectCampaign")
     /\ \E i \in 1..Len(fCampaigns) :
            fCampaigns[i].is_active /\ Vetoes(fCampaigns[i].trigger_keywords, fMsg))
        => fResult = NoCampaign

\* C10: for a present (non-empty) message, matchKeywords returns none when an
\* excluded word vetoes it; otherwise the first phrase of exact_matches the
\* message contains, with type EXACT; otherwise the first such keyword, with
\* type KEYWORD; otherwise the main word of the first synonym group that
\* hits, with type SYNONYM; otherwise none.
C10_TierOrder ==
    (Called("matchKeywords") /\ fRules.kind = "ruleset" /\ fMsg # <<>>)
        => LET exact == PhraseHits(fRules.exact_matches, fMsg)
               kw == PhraseHits(fRules.keywords, fMsg)
               syn == SynonymHits(fRules.synonyms, fMsg)
           IN IF Vetoes(fRules, fMsg) THEN fResult = NoMatch
              ELSE IF exact # {}
                   THEN fResult = Match(fRules.exact_matches[Least(exact)], "EXACT")
              ELSE IF kw # {}
                   THEN fResult = Match(fRules.keywords[Least(kw)], "KEYWORD")
              ELSE IF syn # {}
                   THEN fResult = Match(fRules.synonyms[Least(syn)].main, "SYNONYM")
              ELSE fResult = NoMatch
C10_Witness ==
    /\ Called("matchKeywords")
    /\ fRules.kind = "ruleset"
    /\ ~Vetoes(fRules, fMsg)
    /\ PhraseHits(fRules.exact_matches, fMsg) # {}
    /\ PhraseHits(fRules.keywords, fMsg) # {}
    /\ fRules.exact_matches # fRules.keywords
    /\ fResult.type = "EXACT"

\* ---- containsKeyword, synonyms, normalizeText ----
\* The whitespace-delimited tokens of a text: its maximal runs of characters
\* that are not whitespace.
Tokens(s) ==
    {SubSeq(s, p[1], p[2]) :
        p \in {q \in (1..Len(s)) \X (1..Len(s)) :
                  /\ q[1] <= q[2]
                  /\ \A k \in q[1]..q[2] : s[k] \notin Whitespace
                  /\ q[1] = 1 \/ s[q[1] - 1] \in Whitespace
                  /\ q[2] = Len(s) \/ s[q[2] + 1] \in Whitespace}}

\* The phrase of a one-keyword rule set, and whether its words all occur in
\* the message.
OnlyKeyword == normalizeText(fRules.keywords[1])
WordsAllOccur == Tokens(OnlyKeyword) \subseteq Tokens(normalizeText(fMsg))

\* C11: containsKeyword is true exactly when the phrase is a contiguous
\* substring of the message or every whitespace-delimited token of the phrase
\* is a token of the message; and a keyword whose words all occur in a
\* message, contiguously or not, makes matchKeywords return it with type
\* KEYWORD.
C11_ContainsPhraseOrAllWords ==
    /\ Called("containsKeyword")
          => fResult = (Includes(normalizeText(fMsg), OnlyKeyword) \/ WordsAllOccur)
    /\ (Called("matchKeywords") /\ fMsg # <<>> /\ WordsAllOccur)
          => fResult = Match(fRules.keywords[1], "KEYWORD")
C11_Witness ==
    /\ Called("matchKeywords")
    /\ Len(fMsg) = 3
    /\ Cardinality(Tokens(OnlyKeyword)) = 2
    /\ WordsAllOccur
    /\ ~Includes(normalizeText(fMsg), OnlyKeyword)
    /\ fResult.type = "KEYWORD"

\* C12: whenever matchKeywords returns type SYNONYM, the matched text is the
\* main word of the first synonym group that hits, also when the hit is on
\* one of the synonyms of the group and not on its main word.
C12_SynonymReportsMainWord ==
    (Called("matchKeywords") /\ fResult.type = "SYNONYM")
        => LET hits == SynonymHits(fRules.synonyms, fMsg)
           IN /\ hits # {}
              /\ fResult.matched = fRules.synonyms[Least(hits)].main
C12_Witness ==
    /\ Called("matchKeywords")
    /\ fResult.type = "SYNONYM"
    /\ ~Includes(normalizeText(fMsg), normalizeText(fResult.matched))
    /\ \E g \in 1..Len(fRules.synonyms) :
          /\ fRules.synonyms[g].main = fResult.matched
          /\ \E i \in 1..Len(fRules.synonyms[g].list) :
                /\ fRules.synonyms[g].list[i] # fResult.matched
                /\ Len(normalizeText(fRules.synonyms[g].list[i])) > 0
                /\ Includes(normalizeText(fMsg), normalizeText(fRules.synonyms[g].list[i]))

\* C13: normalizeText(normalizeText(x)) = normalizeText(x) for every text x,
\* and the empty text normalizes to the empty text.
C13_NormalizeIdempotent ==
    Called("normalizeText")
        => /\ normalizeText(fResult) = fResult
           /\ fMsg = <<>> => fResult = <<>>
C13_Witness ==
    /\ Called("normalizeText")
    /\ \E i \in 1..Len(fMsg) : fMsg[i] = "A_ACUTE"
    /\ \E i \in 1..Len(fMsg) : fMsg[i] \in Punctuation
    /\ fResult = <<"a">>

(***************************************************************************)
(* Claims about the rate limiter (ratelimit.service.js).                   *)
(***************************************************************************)
\* The call checkRateLimit just made, with every store access it reached
\* succeeding.
Checked == Called("checkRateLimit") /\ fResult.argument = "none"

\* The hour and the day test of the check, on the row the call found.
LastTriggerWithin(call, window) ==
    /\ call.before.last_trigger_at # NULL
    /\ call.before.last_trigger_at > call.at - window
HourRuleApplies(call) ==
    LastTriggerWithin(call, HourTicks) /\ call.before.trigger_count_hour >= RateLimitHour
DayRuleApplies(call) ==
    LastTriggerWithin(call, DayTicks) /\ call.before.trigger_count_day >= RateLimitDay

\* The rules of the check in their order: the reasons each may give.
RuleReasons ==
    << {"BLOCKED_PERMANENT"}, {"NEW_USER"}, {"UNBLOCKED", "BLOCKED_TEMPORARY"},
       {"RATE_LIMIT_HOUR"}, {"RATE_LIMIT_DAY"}, {"OK"} >>
RuleApplies(call) ==
    << call.permanentlyBlocked, ~call.before.exists, call.before.is_blocked,
       HourRuleApplies(call), DayRuleApplies(call), TRUE >>
FirstRule(call) == Least({k \in 1..6 : RuleApplies(call)[k]})

\* C14: checkRateLimit answers with the first rule that applies, in the order
\* permanent block, no record, isBlocked, hour limit, day limit, OK; a sender
\* in the permanent block list gets BLOCKED_PERMANENT whatever the record
\* holds; a record that reached both limits gets RATE_LIMIT_HOUR.
C14_RuleOrder ==
    /\ Checked => fResult.reason \in RuleReasons[FirstRule(fResult)]
    /\ (Called("checkRateLimit") /\ fResult.argument # "blocked_numbers"
            /\ fResult.permanentlyBlocked)
          => (fResult.reason = "BLOCKED_PERMANENT" /\ ~fResult.allowed)
    /\ (Checked /\ FirstRule(fResult) > 3
            /\ HourRuleApplies(fResult) /\ DayRuleApplies(fResult))
          => (fResult.reason = "RATE_LIMIT_HOUR" /\ ~fResult.allowed)
C14_Witness ==
    /\ Checked
    /\ HourRuleApplies(fResult) /\ DayRuleApplies(fResult)
    /\ fResult.reason = "RATE_LIMIT_HOUR"

\* The check found an unblocked sender whose last trigger lies within the
\* trailing hour.
RecentUnblocked ==
    /\ Checked
    /\ ~fResult.permanentlyBlocked
    /\ fResult.before.exists
    /\ ~fResult.before.is_blocked
    /\ LastTriggerWithin(fResult, HourTicks)

\* C15 as stated: for an unblocked sender whose last trigger lies within the
\* trailing hour, hourCount = H-1 gives allowed = true and hourCount = H gives
\* allowed = false with RATE_LIMIT_HOUR.
C15_Original ==
    RecentUnblocked =>
        /\ fResult.before.trigger_count_hour = RateLimitHour - 1 => fResult.allowed
        /\ fResult.before.trigger_count_hour = RateLimitHour
              => (~fResult.allowed /\ fResult.reason = "RATE_LIMIT_HOUR")

\* C15 amended: for an unblocked sender whose last trigger lies within the
\* trailing hour, hourCount = H-1 gives allowed = true with OK when dayCount
\* is below D and allowed = false with RATE_LIMIT_DAY when dayCount has
\* reached D; hourCount = H gives allowed = false with RATE_LIMIT_HOUR.
C15_HourThreshold ==
    RecentUnblocked =>
        /\ fResult.before.trigger_count_hour = RateLimitHour - 1
              => IF fResult.before.trigger_count_day < RateLimitDay
                 THEN fResult.allowed /\ fResult.reason = "OK"
                 ELSE ~fResult.allowed /\ fResult.reason = "RATE_LIMIT_DAY"
        /\ fResult.before.trigger_count_hour = RateLimitHour
              => (~fResult.allowed /\ fResult.reason = "RATE_LIMIT_HOUR")
C15_Witness ==
    /\ RecentUnblocked
    /\ fResult.before.trigger_count_hour = RateLimitHour - 1
    /\ fResult.before.trigger_count_day < RateLimitDay
    /\ fResult.allowed

\* The triggers of the sender recorded within the window that ends at the
\* check, both ends included.
TriggersWithin(call, window) ==
    Cardinality({i \in DOMAIN triggerLog[RateUser] :
                    /\ triggerLog[RateUser][i] >= call.at - window
                    /\ triggerLog[RateUser][i] <= call.at})

\* C16: the limits are sliding windows: a check denies with RATE_LIMIT_HOUR
\* only if at least H triggers of the sender were recorded within the hour
\* before the check, and with RATE_LIMIT_DAY only if at least D were recorded
\* within the day before it.
C16_SlidingWindows ==
    Checked =>
        /\ fResult.reason = "RATE_LIMIT_HOUR"
              => TriggersWithin(fResult, HourTicks) >= RateLimitHour
        /\ fResult.reason = "RATE_LIMIT_DAY"
              => TriggersWithin(fResult, DayTicks) >= RateLimitDay

\* The check read the record of a sender outside the permanent block list
\* and found it blocked.
FoundBlocked ==
    /\ Checked
    /\ ~fResult.permanentlyBlocked
    /\ fResult.before.exists
    /\ fResult.before.is_blocked
BlockEnded(call) ==
    call.before.blocked_until # NULL /\ call.before.blocked_until < call.at
SeesBlock(row, t) ==
    checkRateLimit(FALSE, row, t).reason \in {"UNBLOCKED", "BLOCKED_TEMPORARY"}

\* C17: a check that finds isBlocked = true with blockedUntil in the past
\* answers allowed = true with UNBLOCKED and leaves the record with
\* isBlocked = false and blockedUntil = null, its other fields as they were,
\* so that a further check sees no block.
C17_AutoUnblock ==
    (FoundBlocked /\ BlockEnded(fResult))
        => /\ fResult.allowed
           /\ fResult.reason = "UNBLOCKED"
           /\ rateLimit[RateUser] =
                 [fResult.before EXCEPT !.is_blocked = FALSE, !.blocked_until = NULL]
           /\ ~SeesBlock(rateLimit[RateUser], now)
C17_Witness ==
    /\ FoundBlocked
    /\ BlockEnded(fResult)
    /\ fResult.reason = "UNBLOCKED"
    /\ ~rateLimit[RateUser].is_blocked

\* A check that finds isBlocked = true with blockedUntil null or not yet past
\* denies with BLOCKED_TEMPORARY and leaves the record as it was.
C18_Denied ==
    (FoundBlocked /\ ~BlockEnded(fResult))
        => /\ ~fResult.allowed
           /\ fResult.reason = "BLOCKED_TEMPORARY"
           /\ rateLimit[RateUser] = fResult.before
\* A block without an end stays until blockUser is called again, whatever
\* time passes and whatever checks and updates are made.
IndefinitelyBlocked(row) == row.exists /\ row.is_blocked /\ row.blocked_until = NULL
C18_Indefinite ==
    (IndefinitelyBlocked(rateLimit[RateUser])
        /\ ~(trackerOps' # trackerOps /\ fPhase' = "blockUser"))
        => IndefinitelyBlocked(rateLimit'[RateUser])

\* C18: a check that finds isBlocked = true with blockedUntil null or not yet
\* past answers allowed = false with BLOCKED_TEMPORARY and leaves the record
\* unchanged; with blockedUntil = null the block stays in the record, so
\* every later check answers the same, however much time passes.
C18_BlockedStaysBlocked == []C18_Denied /\ [][C18_Indefinite]_vars
C18_Witness ==
    /\ FoundBlocked
    /\ fResult.before.blocked_until = NULL
    /\ fResult.at >= StartTime + DayTicks
    /\ fResult.reason = "BLOCKED_TEMPORARY"

\* The store access of the check that failed did fail: the access was
\* reached.
AccessFailed(call) ==
    \/ call.argument = "blocked_numbers"
    \/ call.argument = "user_rate_limit" /\ ~call.permanentlyBlocked
    \/ /\ call.argument = "unblock"
       /\ ~call.permanentlyBlocked
       /\ call.before.exists
       /\ call.before.is_blocked
       /\ BlockEnded(call)

\* C19: when a store access inside checkRateLimit fails (the block-list
\* read, the record read or the auto-unblock write) the check answers
\* allowed = true with ERROR_CHECK, raises nothing and leaves the record.
C19_FailsOpen ==
    (Called("checkRateLimit") /\ AccessFailed(fResult))
        => /\ fResult.allowed
           /\ fResult.reason = "ERROR_CHECK"
           /\ ~fResult.threw
           /\ rateLimit[RateUser] = fResult.before
C19_Witness ==
    /\ Called("checkRateLimit")
    /\ fResult.argument = "unblock"
    /\ AccessFailed(fResult)
    /\ fResult.reason = "ERROR_CHECK"

\* The last trigger of the record lies before the window that ends at t.
Predates(row, t, window) == row.last_trigger_at # NULL /\ row.last_trigger_at < t - window
Updated == Called("updateRateLimit") /\ ~fResult.threw

\* C20: updateRateLimit creates a missing record with the three counters at
\* 1 and not blocked; on an existing record it sets hourCount to 1 when the
\* last trigger predates the hour window and increments it otherwise, does
\* the same for dayCount against the day window, increments totalCount, sets
\* lastTriggerAt to now and leaves the block fields.
C20_UpdateCounters ==
    Updated =>
        LET before == fResult.before
            after == rateLimit[RateUser]
        IN /\ after.exists
           /\ after.last_trigger_at = fResult.at
           /\ IF ~before.exists
              THEN /\ after.trigger_count_hour = 1
                   /\ after.trigger_count_day = 1
                   /\ after.trigger_count_total = 1
                   /\ ~after.is_blocked
              ELSE /\ after.trigger_count_hour =
                        IF Predates(before, fResult.at, HourTicks)
                        THEN 1 ELSE before.trigger_count_hour + 1
                   /\ after.trigger_count_day =
                        IF Predates(before, fResult.at, DayTicks)
                        THEN 1 ELSE before.trigger_count_day + 1
                   /\ after.trigger_count_total = before.trigger_count_total + 1
                   /\ after.is_blocked = before.is_blocked
                   /\ after.blocked_until = before.blocked_until
C20_Witness ==
    /\ Updated
    /\ fResult.before.exists
    /\ Predates(fResult.before, fResult.at, HourTicks)
    /\ ~Predates(fResult.before, fResult.at, DayTicks)
    /\ fResult.before.trigger_count_hour > 1
    /\ rateLimit[RateUser].trigger_count_hour = 1
    /\ rateLimit[RateUser].trigger_count_day = fResult.before.trigger_count_day + 1

\* C21: blockUser sets isBlocked = true and records the reason; blockedUntil
\* becomes now + hoursBlocked for every non-null hoursBlocked, 0 included,
\* and null only when hoursBlocked is null.
C21_BlockUntil ==
    Called("blockUser") =>
        LET after == rateLimit[RateUser]
            hoursBlocked == fResult.argument.hoursBlocked
        IN /\ after.exists
           /\ after.is_blocked
           /\ after.blocked_reason = fResult.argument.reason
           /\ after.blocked_until =
                 IF hoursBlocked = NULL THEN NULL
                 ELSE fResult.at + hoursBlocked * HourTicks

(***************************************************************************)
(* Claims about the dispatch (message.service.js) and the orchestration    *)
(* (whatsapp.service.js handleIncomingMessage).                            *)
(***************************************************************************)
\* The sort_order of the message a send of run r was made for.
SortOrderOfSend(r, n) ==
    LET row == CHOOSE m \in {runs[r].plan[k] : k \in DOMAIN runs[r].plan} :
                   m.id = sendLog[r][n].item
    IN row.sort_order

\* C22: whatever the order in which the plan handed to the dispatcher lists
\* its items, the sends to the recipient are made in strictly ascending
\* sortOrder of their items.
C22_AscendingSortOrder ==
    \A r \in Runs :
        \A a, b \in DOMAIN sendLog[r] :
            (a < b /\ sendLog[r][a].item # sendLog[r][b].item)
                => SortOrderOfSend(r, a) < SortOrderOfSend(r, b)

\* The positions of a plan whose type the dispatcher does not support, and
\* the turns of a run that ended in a given way.
SupportedTypes == {"TEXT", "IMAGE", "AUDIO", "DOCUMENT", "GALLERY"}
Unsupported(plan) == {k \in DOMAIN plan : plan[k].type_code \notin SupportedTypes}
Turns(run, how) == {k \in DOMAIN run.outcomes : run.outcomes[k] = how}

\* C23: a non-fatal failure of an item does not abort the dispatch: the
\* dispatch raises only on a transport-fatal send, and when it returns every
\* item has had its turn, sent is the number of items that succeeded (the
\* increments of the conversation), failed the number that failed (the
\* supported items that did not succeed) and total the length of the plan.
C23_NonFatalFailureContinues ==
    \A r \in Runs :
        /\ runs[r].result = "threw"
              => /\ sendLog[r] # <<>>
                 /\ sendLog[r][Len(sendLog[r])].outcome = "fatal"
        /\ runs[r].result = "returned"
              => LET total == Len(runs[r].plan)
                 IN /\ Len(runs[r].outcomes) = total
                    /\ runs[r].sent = ConversationOf(r).messages_sent
                    /\ runs[r].sent = Cardinality(Turns(runs[r], "sent"))
                    /\ runs[r].failed = Cardinality(Turns(runs[r], "failed"))
                    /\ runs[r].failed =
                          total - runs[r].sent - Cardinality(Unsupported(runs[r].plan))
C23_Witness ==
    \E r \in Runs :
        /\ runs[r].result = "returned"
        /\ runs[r].outcomes = <<"failed", "sent">>
        /\ runs[r].sent = 1
        /\ runs[r].failed = 1

\* The place of each step of a run in the order the statement gives:
\* campaign selection, RateLimiter.check, active-conversation gate,
\* Conversation create, plan fetch, dispatch, then Conversation finalize and
\* RateLimiter.update.
StatedOrder ==
    [detect |-> 1, checkRate |-> 2, getActive |-> 3, create |-> 4, getPlan |-> 5,
     item |-> 6, send |-> 6, gallery |-> 6, failEmpty |-> 7, finalize |-> 7,
     updateRate |-> 7]

\* C24: in every run the steps occur in the stated order; in particular the
\* counters of the sender are updated only after the dispatch of the run has
\* run.
C24_StepOrder ==
    [][\A r \in Runs :
          /\ (runs[r].pc \in DOMAIN StatedOrder /\ runs'[r].pc \in DOMAIN StatedOrder)
                => StatedOrder[runs[r].pc] <= StatedOrder[runs'[r].pc]
          /\ (runs[r].pc = "updateRate" /\ triggerLog' # triggerLog)
                => runs[r].result # "none"]_vars

\* The ways a run ends when admission fails: the sender has an active
\* conversation, checkRateLimit denies, no campaign matches.
AdmissionFailures == {"ignored", "denied", "nomatch"}
AdmissionSteps == {"getActive", "checkRate", "detect"}
Counters(table) ==
    [u \in Users |->
        <<table[u].trigger_count_hour, table[u].trigger_count_day,
          table[u].trigger_count_total, table[u].last_trigger_at>>]
PlanIds(run) == {run.plan[k].id : k \in DOMAIN run.plan}

\* A run whose admission failed has created no conversation and sent
\* nothing, and whatever a run sends is an item of its plan, never a notice
\* of a failure.
C25_NothingCreatedOrSent ==
    \A r \in Runs :
        /\ runs[r].end \in AdmissionFailures
              => (runs[r].convId = 0 /\ sendLog[r] = <<>> /\ runs[r].plan = <<>>)
        /\ \A k \in DOMAIN sendLog[r] : sendLog[r][k].item \in PlanIds(runs[r])
\* The steps up to admission leave the conversations, the counters of every
\* sender and the sends as they are.
C25_AdmissionStepsFrame ==
    \A r \in Runs :
        (runs[r].pc \in AdmissionSteps /\ runs'[r] # runs[r])
            => /\ conversations' = conversations
               /\ Counters(rateLimit') = Counters(rateLimit)
               /\ triggerLog' = triggerLog
               /\ sendLog' = sendLog

\* C25: when admission fails for a message (active conversation, rate limit
\* denies, no campaign matches) the run creates no conversation, leaves the
\* counters of the sender and sends nothing; no failure makes the run send a
\* notice to the sender.
C25_AdmissionFailureFrame == []C25_NothingCreatedOrSent /\ [][C25_AdmissionStepsFrame]_vars
C25_Witness ==
    \E r \in Runs :
        /\ runs[r].end = "denied"
        /\ runs[r].reason = "RATE_LIMIT_HOUR"
        /\ Counters(rateLimit)[runs[r].user] = Counters(InitialRateLimit)[runs[r].user]

\* The message of the run came from the bot itself or from a group chat, or
\* has no text.
NotForTheBot(run) ==
    run.fromMe \/ run.user = GroupChat \/ IsBlank(run.text)
\* The run was dropped on arrival: it read no store, made no rate-limit
\* check, has no conversation and sent nothing.
C26_Dropped ==
    \A r \in Runs :
        (runs[r].pc # "idle" /\ NotForTheBot(runs[r]))
            => /\ runs[r].pc = "done"
               /\ runs[r].end = "discarded"
               /\ runs[r].reason = ""
               /\ runs[r].convId = 0
               /\ sendLog[r] = <<>>
C26_DropStepFrame ==
    \A r \in Runs :
        (runs[r].pc = "idle" /\ runs'[r].pc # "idle" /\ NotForTheBot(runs'[r]))
            => /\ conversations' = conversations
               /\ rateLimit' = rateLimit
               /\ triggerLog' = triggerLog
               /\ storeFailures' = storeFailures
               /\ sendLog' = sendLog

\* C26: a message from a group chat or from the bot itself, or with empty
\* text, causes no store access, no rate-limit change, no conversation and no
\* send.
C26_IgnoredMessagesTouchNothing == []C26_Dropped /\ [][C26_DropStepFrame]_vars
C26_Witness ==
    \E r \in Runs :
        /\ runs[r].end = "discarded"
        /\ runs[r].user = GroupChat
        /\ ~runs[r].fromMe
        /\ ~IsBlank(runs[r].text)

\* A send of the item at position k of the plan of run r was delivered.
Delivered(r, k) ==
    \E n \in DOMAIN sendLog[r] :
        /\ sendLog[r][n].item = runs[r].plan[k].id
        /\ sendLog[r][n].outcome = "sent"

\* C27: a store error in the bookkeeping of the dispatch (the increment of
\* the conversation after a delivered send) is raised to the caller and is
\* not counted as an ordinary failure of the item: a turn counted as failed
\* is never the turn of an item whose send was delivered.
C27_StoreErrorsPropagate ==
    \A r \in Runs :
        \A k \in DOMAIN runs[r].outcomes :
            runs[r].outcomes[k] = "failed" => ~Delivered(r, k)

\* The active campaigns of the table with a well-formed rule set that
\* matches the message.
WellFormedMatches(table, message) ==
    {i \in 1..Len(table) :
        /\ table[i].is_active
        /\ table[i].trigger_keywords.kind = "ruleset"
        /\ matchKeywords(message, table[i].trigger_keywords) # NoMatch}

\* C28: detectCampaign skips a campaign whose document is malformed (text
\* that does not parse, a document or an entry of the wrong shape) and still
\* evaluates the others: for a message that is not blank it returns the
\* matching well-formed campaign of the highest priority, and none only when
\* there is no such campaign.
C28_MalformedSkipped ==
    (Called("detectCampaign") /\ ~IsBlank(fMsg))
        => LET matching == WellFormedMatches(fCampaigns, fMsg)
           IN IF matching = {} THEN fResult = NoCampaign
              ELSE /\ fResult.campaignId \in matching
                   /\ \A k \in matching : fCampaigns[k].priority <= fResult.priority

\* The step makes a send of run r.
Sends(r) == sendLog'[r] # sendLog[r]

\* Every send of a run is made for the message the loop is at, after every
\* earlier message had its turn (sent, failed or skipped), one send a step,
\* and, when the message has a delay, after the run slept.
C29_SendStep ==
    \A r \in Runs :
        Sends(r)
            => /\ sendLog'[r] = Append(sendLog[r], sendLog'[r][Len(sendLog'[r])])
               /\ sendLog'[r][Len(sendLog'[r])].item = CurrentItem(runs[r]).id
               /\ Len(runs[r].outcomes) = runs[r].i - 1
               /\ CurrentItem(runs[r]).delay_seconds > 0 => runs[r].pc \in {"send", "gallery"}

\* C29: within one dispatch at most one send is in flight: the send of item k
\* begins only after item k-1 has finished and, when item k has
\* delaySeconds > 0, after that delay has elapsed.
C29_OneSendAtATime == [][C29_SendStep]_vars
C29_Witness ==
    \E r \in Runs :
        /\ Len(sendLog[r]) = 2
        /\ runs[r].outcomes = <<"sent", "sent">>
        /\ runs[r].plan[2].delay_seconds > 0
        /\ sendLog[r][2].item = runs[r].plan[2].id

(***************************************************************************)
(* Claims about replaceVariables (helpers.js).                             *)
(***************************************************************************)
\* The value the variables give a key, if any.
HasKey(variables, key) == \E k \in DOMAIN variables : variables[k].key = key
ValueOf(variables, key) ==
    variables[CHOOSE k \in DOMAIN variables : variables[k].key = key].value

\* The template with every token replaced at once: substituted text is not
\* looked at again, and a token whose key has no value stays.
SubstituteAtOnce(template, variables) ==
    Concat([i \in 1..Len(template) |->
        IF template[i] \in DOMAIN TokenKey /\ HasKey(variables, TokenKey[template[i]])
        THEN ValueOf(variables, TokenKey[template[i]])
        ELSE <<template[i]>>])

\* C30: replaceVariables(template, variables) is the template with every
\* {key} token, the key compared without regard to case, replaced by
\* variables[key] in a single simultaneous substitution: substituted text is
\* never expanded again and tokens of unknown keys stay verbatim.
C30_SimultaneousSubstitution ==
    Called("replaceVariables") => fResult = SubstituteAtOnce(fMsg, fRules)

(***************************************************************************)
(* sendGalleryMessage.                                                     *)
(***************************************************************************)
\* The media rows of the gallery whose loop a run entered last.
GalleryMedia(run) ==
    LET items == {k \in DOMAIN run.plan : run.plan[k].id = run.gallery[1].item}
    IN run.plan[CHOOSE k \in items : TRUE].media

\* The images of the turns taken so far that were sent.
SentImages(run) == {k \in DOMAIN run.gallery : run.gallery[k].attempt = "sent"}

\* The id a gallery has to report after the turns taken so far.
LastSentOrPlaceholder(run) ==
    IF SentImages(run) = {} THEN PlaceholderId
    ELSE SentId(CHOOSE k \in SentImages(run) : \A m \in SentImages(run) : m <= k)

\* The calls of client.sendMessage a run made for the images of the gallery.
GallerySends(r) ==
    SelectSeq(sendLog[r], LAMBDA e : runs[r].gallery # <<>> /\ e.media > 0
                                     /\ e.item = runs[r].gallery[1].item)
GalleryAttempted(run) ==
    SelectSeq(run.gallery, LAMBDA t : t.attempt \in SendOutcomes)

\* The gallery returned: the loop was entered and the run has left it.
GalleryReturned(run) == run.gallery # <<>> /\ run.pc # "gallery"

\* C31: the loop of a gallery with n media rows takes the rows one at a time
\* in the order of the query (ORDER BY sort_order), each row once: turn k
\* handles row k, whatever happened to the rows before it, and each
\* downloaded image is sent once; when the gallery returns all n rows had
\* their turn, and the id handed to logMessageSent is that of the last image
\* that was sent, or the GALLERY_ placeholder when none was.
C31_GalleryEachImageOnce ==
    \A r \in Runs :
       LET run == runs[r]
       IN /\ \A k \in DOMAIN run.gallery : run.gallery[k].media = k
          /\ run.pc = "gallery" => /\ Len(run.gallery) = run.j - 1
                                   /\ run.j <= CurrentItem(run).media
          /\ run.gallery # <<>> =>
                /\ Len(GallerySends(r)) = Len(GalleryAttempted(run))
                /\ \A k \in DOMAIN GallerySends(r) :
                      /\ GallerySends(r)[k].media = GalleryAttempted(run)[k].media
                      /\ GallerySends(r)[k].outcome = GalleryAttempted(run)[k].attempt
          /\ GalleryReturned(run) =>
                /\ Len(run.gallery) = GalleryMedia(run)
                /\ \E k \in DOMAIN run.logged :
                      /\ run.logged[k].item = run.gallery[1].item
                      /\ run.logged[k].id = LastSentOrPlaceholder(run)
                /\ \A k \in DOMAIN run.logged :
                      run.logged[k].item = run.gallery[1].item
                         => run.logged[k].id = LastSentOrPlaceholder(run)

\* A gallery of MaxMedia images returned after its first image failed and a
\* later one was sent.
C31_Witness ==
    \E r \in Runs :
       /\ GalleryReturned(runs[r])
       /\ Len(runs[r].gallery) = MaxMedia
       /\ runs[r].gallery[1].attempt = "error"
       /\ runs[r].gallery[MaxMedia].attempt = "sent"
       /\ \E k \in DOMAIN runs[r].logged : runs[r].logged[k].id = SentId(MaxMedia)

\* A gallery returned with every image failed.
C31_AllFailedWitness ==
    \E r \in Runs :
       /\ GalleryReturned(runs[r])
       /\ SentImages(runs[r]) = {}
       /\ \E k \in DOMAIN runs[r].logged : runs[r].logged[k].id = PlaceholderId

(***************************************************************************)
(* The result of sendSequentialMessages.                                   *)
(***************************************************************************)
\* C32: whenever sendSequentialMessages has returned normally, the counts of
\* its result add up to the length of the plan: sent + failed = total, every
\* item of the plan being counted once, as sent or as failed.
C32_CountsAddUp ==
    \A r \in Runs :
       runs[r].result = "returned" =>
          runs[r].sent + runs[r].failed = Len(runs[r].plan)

(***************************************************************************)
(* COMPLETED and the sends of the dispatch.                                *)
(***************************************************************************)
\* The calls of client.sendMessage of a run that returned a message.
SuccessfulSends(r) == {k \in DOMAIN sendLog[r] : sendLog[r][k].outcome = "sent"}

\* C33: the conversation of a run is COMPLETED only if some send of the
\* dispatch of the run succeeded, and the items the run counted as sent
\* (and the messages_sent of its conversation) are no more than its
\* successful sends.
C33_CompletedOnlyAfterASend ==
    \A r \in Runs :
       CreatedConversation(r) =>
          /\ ConversationOf(r).status = "COMPLETED" => SuccessfulSends(r) # {}
          /\ runs[r].sent > 0 => SuccessfulSends(r) # {}
          /\ ConversationOf(r).messages_sent > 0 => SuccessfulSends(r) # {}

(***************************************************************************)
(* Admissions per hour.                                                    *)
(***************************************************************************)
\* The triggers of a sender recorded in the hour that ends at t.
AdmittedInHourTo(u, t) ==
    {k \in DOMAIN triggerLog[u] :
        triggerLog[u][k] > t - HourTicks /\ triggerLog[u][k] <= t}

\* C34: while no store access has failed, every sender has at most
\* RateLimitHour admitted triggers (runs that passed checkRateLimit and
\* reached updateRateLimit) in every interval of one hour.
C34_AtMostHPerHour ==
    storeFailures = 0 =>
        \A u \in Users : \A t \in 0..(StartTime + MaxTicks) :
            Cardinality(AdmittedInHourTo(u, t)) <= RateLimitHour

(***************************************************************************)
(* Rate-limit updates and conversations.                                   *)
(***************************************************************************)
\* The updateRateLimit calls made for a sender since the service started,
\* and the conversations created for the sender.
UpdatesOf(u) == Len(triggerLog[u]) - Len(InitialTriggerLog[u])
ConversationsOf(u) ==
    Cardinality({id \in DOMAIN conversations : conversations[id].user_phone = u})
Quiescent == \A r \in Runs : runs[r].pc \in {"idle", "done"}

\* C35: whenever no run is under way, every sender has as many rate-limit
\* updates as conversations: a run updates the counters once if it creates
\* a conversation and not at all if it creates none, store failures
\* included.
C35_UpdatesEqualConversations ==
    Quiescent => \A u \in Users : UpdatesOf(u) = ConversationsOf(u)

(***************************************************************************)
(* Rule-set entries that normalize to the empty string.                    *)
(***************************************************************************)
NormalizesToText(entry) == normalizeText(entry) # <<>>

\* The rule set without the entries of its lists that normalize to the empty
\* string; the main words, being keys, stay.
WithoutEmptyEntries(doc) ==
    [doc EXCEPT
        !.excluded_words = SelectSeq(@, NormalizesToText),
        !.exact_matches = SelectSeq(@, NormalizesToText),
        !.keywords = SelectSeq(@, NormalizesToText),
        !.synonyms = [g \in DOMAIN @ |->
                         [@[g] EXCEPT !.list = SelectSeq(@, NormalizesToText)]]]

\* A term of the group that normalizes to a text occurs in the message.
HitByText(group, message) ==
    \/ /\ NormalizesToText(group.main)
       /\ Includes(normalizeText(message), normalizeText(group.main))
    \/ \E i \in 1..Len(group.list) :
          /\ NormalizesToText(group.list[i])
          /\ Includes(normalizeText(message), normalizeText(group.list[i]))

\* C36: an entry that normalizes to the empty string has no effect:
\* matchKeywords answers as it does for the rule set without such entries
\* (no veto by such an excluded word, no match on such an exact match,
\* keyword or synonym), and a SYNONYM match is never owed to a main word
\* that normalizes to the empty string.
C36_EmptyEntriesHaveNoEffect ==
    (Called("matchKeywords") /\ fRules.kind = "ruleset") =>
        /\ fResult = matchKeywords(fMsg, WithoutEmptyEntries(fRules))
        /\ fResult.type = "SYNONYM" =>
              \E g \in DOMAIN fRules.synonyms :
                 /\ fRules.synonyms[g].main = fResult.matched
                 /\ HitByText(fRules.synonyms[g], fMsg)

(***************************************************************************)
(* The service singleton and the start requests.                           *)
(***************************************************************************)
\* The initializations in flight: client.initialize() has not settled.
Pending == {p \in DOMAIN inits : inits[p].state = "pending"}

\* C37: at most one initialization is in flight at any time: initialize
\* called while one is pending creates no further client, whatever destroy
\* and initialize calls interleave.
C37_OneInitializationInFlight == Cardinality(Pending) <= 1

\* The clients whose 'message' handler is registered.
Listening == {c \in DOMAIN clients : clients[c].listeners}

\* C38: at most one client instance has a registered 'message' handler at
\* any time, so that a message is handled once, also after the service was
\* initialized again.
C38_OneListeningClient == Cardinality(Listening) <= 1

\* C39: once the initialization a timer guards has succeeded the timer is
\* not armed any more, and no timer fires after the initialization it
\* guards succeeded.
C39_TimerCancelledOnSuccess ==
    \A k \in DOMAIN timers :
       /\ (Succeeded(timers[k]) => timers[k].state # "armed")
       /\ ~timers[k].afterSuccess

====
